---- MODULE Spec2Model ----
(***************************************************************************)
(* A model of the comment-scraping subsystem of the sentiment-analysis     *)
(* application: the Instagram client (scrapers/instagram_scraper_module),  *)
(* the TikTok client (scrapers/tiktok_scraper_module), the URL helper      *)
(* extract_post_id (utils), the request handlers and the log handler of    *)
(* the web layer (app) and the label mapping of the sentiment analyzer     *)
(* (sentiment_analyzer).  The platform is the environment: every page      *)
(* request is answered by a response the platform picks, well-formed or    *)
(* not.  Python exceptions are modelled by their class name and travel up  *)
(* the handlers exactly as the try/except clauses of the source say.       *)
(***************************************************************************)
EXTENDS Integers, Sequences, FiniteSets, TLC

VARIABLES
    \* ---- InstagramScraper.scrape_comments / fetch_comments / fetch_replies
    ig_pc,        \* position of the one scrape call
    ig_all,       \* fetch_comments: all_comments
    ig_has_next,  \* fetch_comments: has_next
    ig_cursor,    \* fetch_comments: cursor
    ig_edges,     \* fetch_comments: edges of the current page not yet visited
    ig_pinfo,     \* fetch_comments: page_info part of the current page
    ig_pos,       \* position in the page of the edge last visited
    ig_replies,   \* fetch_replies: all_replies
    ig_rhas_next, \* fetch_replies: has_next
    ig_rcursor,   \* fetch_replies: cursor
    ig_result,    \* what scrape_comments returned
    \* history of the Instagram scrape (not read by the code)
    ig_tpage,     \* ordinal of the current top-level page among pages with edges
    ig_rpage,     \* same, inside the current reply walk
    ig_served,    \* src of every non-empty node the platform has served
    ig_nodes,     \* number of edges served so far
    ig_irreg,     \* number of irregular responses / nodes served so far
    ig_exit,      \* how the scrape ended
    ig_fault,     \* the exception that ended the scrape, if one did
    ig_last,      \* what the HTTP exchange of the last top-level request did,
                  \* and the shape of the body when there was one
    ig_rlast,     \* what the HTTP exchange of the last reply request did
    ig_ev,        \* last two rate events (fetch / sleep) of the top-level walk
    ig_rev,       \* last two rate events of the current reply walk
    ig_walk,      \* the page requests of the top-level walk: how many, the
                  \* first page that reported has_next_page false, the
                  \* cursors sent
    ig_rwalk,     \* of the reply walk last started: how many, the first
                  \* page that reported has_next_page false
    ig_hist,      \* whether the two histories above are kept
    \* the platform of the Instagram scrape
    ig_budget     \* how many irregular responses / nodes it may serve

ig_vars == << ig_pc, ig_all, ig_has_next, ig_cursor, ig_edges, ig_pinfo, ig_pos,
              ig_replies, ig_rhas_next, ig_rcursor, ig_result, ig_tpage, ig_rpage,
              ig_served, ig_nodes, ig_irreg, ig_exit, ig_fault, ig_last, ig_rlast,
              ig_ev, ig_rev, ig_walk, ig_rwalk, ig_hist, ig_budget >>

VARIABLES
    \* ---- TikTokScraper.scrape_comments / get_all_comments / get_comments /
    \*      __parse_comment / get_all_replies / get_replies
    tt_pc,        \* position of the one scrape call
    tt_page,      \* get_all_comments: page
    tt_data,      \* get_all_comments: data, the aggregate seeded by page 1
    tt_stack,     \* the calls of get_comments / get_all_replies in progress
    tt_result,    \* what scrape_comments returned
    \* history of the TikTok scrape (not read by the code)
    tt_pagelog,   \* what get_comments returned for page 1, 2, ...
    tt_nodes,     \* number of comments served so far
    tt_irreg,     \* number of irregular responses / comments served so far
    tt_ev,        \* last two rate events (fetch / sleep) of the top-level walk
    tt_logged,    \* src of the comments __parse_comment logged a preview of
    tt_served,    \* the elements the two endpoints served: src, object or null, create_time
    tt_asked      \* the requests sent to the reply endpoint: parent src, page

tt_vars == << tt_pc, tt_page, tt_data, tt_stack, tt_result, tt_pagelog, tt_nodes,
              tt_irreg, tt_ev, tt_logged, tt_served, tt_asked >>

VARIABLES
    \* ---- utils.extract_post_id(url, platform)
    u_pc,         \* "call" before the call, "done" after it
    u_url,        \* the url argument, a sequence of characters
    u_result,     \* what extract_post_id returned
    \* how the url was put together (not read by the code)
    u_form,       \* the form of the url
    u_id          \* the identifier segment put into the url

u_vars == << u_pc, u_url, u_result, u_form, u_id >>

VARIABLES
    platform      \* the platform tag of the request

VARIABLES
    \* ---- app.analyze_url and app.api_scrape_and_analyze
    w_pc,         \* "form": analyze_url has the request; "api": so has
                  \* api_scrape_and_analyze; "scraping": scrape_comments is
                  \* running; "answered": the request has its response
    w_sid,        \* the session id of the request ("" when there is none)
    w_resp,       \* the response: status code and error message
    w_files,      \* the files api_scrape_and_analyze has written
    w_classified, \* analyze_dataframe has been called
    w_session,    \* the session holds the analysis
    \* how the request came in (not read by the code)
    w_via         \* "form": through analyze_url; "direct": posted to the api

w_vars == << w_pc, w_sid, w_resp, w_files, w_classified, w_session, w_via >>

VARIABLES
    \* ---- SentimentAnalyzer.analyze_single_text(text)
    s_pc,         \* "idle", "call" before the call, "done" after it
    s_text,       \* the argument
    s_cls,        \* what self.classifier does when it is called
    s_result      \* the record returned

s_vars == << s_pc, s_text, s_cls, s_result >>

VARIABLES
    \* ---- utils.allowed_file(filename)
    f_pc,         \* "idle", "call" before the call, "done" after it
    f_name,       \* the filename, a sequence of characters
    f_result      \* the boolean returned

f_vars == << f_pc, f_name, f_result >>

VARIABLES
    \* ---- app.py: scraping_logs, scraping_logs_lock, ScrapingLogHandler and
    \*      the requests to api_scrape_and_analyze that run in parallel threads
    scraping_logs,  \* the dict: session id -> list of captured messages
    l_lock,         \* scraping_logs_lock: 0 when free, else the thread that holds it
    l_epc,          \* per thread: position in a call of ScrapingLogHandler.emit
    l_erec,         \* per thread: the handler (session id) and record of that call
    l_calls,        \* emit calls made so far
    l_pc,           \* per session: position of its request in api_scrape_and_analyze
    l_tag,          \* per session: the platform of the request
    l_handlers,     \* per stdlib logger name: the sessions whose handler it holds
    l_made,         \* per session: progress messages its scrape has logged
    l_out,          \* per session: what the request has to answer, then answered
    \* history (not read by the code)
    l_hist          \* per session: every message emit appended, in that order

l_vars == << scraping_logs, l_lock, l_epc, l_erec, l_calls, l_pc, l_tag, l_handlers,
             l_made, l_out, l_hist >>

vars == << ig_vars, tt_vars, u_vars, w_vars, s_vars, f_vars, l_vars, platform >>

----------------------------------------------------------------------------
(* Bounds of the model *)

\* edges the platform serves in one scrape
MaxNodes == 3
\* edges in one page
MaxPageLen == 2
\* irregular (malformed, failing, null-carrying) responses or nodes in one scrape
MaxIrregular == 1
\* top-level pages a TikTok video has: the last one cannot report has_more
MaxPages == 3
\* depth of a TikTok reply thread
MaxDepth == 2
\* characters of the identifier segment of a url
MaxIdLen == 2

----------------------------------------------------------------------------
(* JSON values and Python exceptions *)

\* JSON null, Python None
NULL == "<null>"
\* a key that the object does not carry
ABSENT == "<absent>"
\* dict.get(key, default): the default only when the key is absent
Get(v, dflt) == IF v = ABSENT THEN dflt ELSE v

\* the post identifier handed to the scrape
Shortcode == "POST"

\* the last two events of a walk, newest last
Push2(ev, e) == IF Len(ev) < 2 THEN Append(ev, e) ELSE << ev[2], e >>

\* the elements of a list
Elems(list) == { list[i] : i \in DOMAIN list }

\* sequences over S of length 0..n
SeqUpTo(S, n) == UNION { [1..k -> S] : k \in 0..n }

----------------------------------------------------------------------------
(* Instagram: nodes and responses the platform may serve *)

\* a top-level comment node as the GraphQL API serves it: id, owner.username,
\* created_at, text, edge_threaded_comments (etc) and the edge that wraps it
Node(edge, id, owner, username, created_at, text, etc) ==
    [edge |-> edge, id |-> id, owner |-> owner, username |-> username,
     created_at |-> created_at, text |-> text, etc |-> etc]

FullNode(etc) == Node("obj", "cid", "obj", "user", "ts", "txt", etc)

\* well-formed parent nodes: no replies, or some replies
IGRegularNodes == { FullNode("count0"), FullNode("countN") }
\* well-formed reply nodes carry no edge_threaded_comments
IGRegularReplies == { FullNode(ABSENT) }

IGIrregularNodes ==
    { Node("obj", "cid", ABSENT, ABSENT, ABSENT, ABSENT, ABSENT),    \* only an id
      Node("obj", ABSENT, ABSENT, ABSENT, ABSENT, ABSENT, ABSENT),   \* node {}
      Node(NULL, ABSENT, ABSENT, ABSENT, ABSENT, ABSENT, ABSENT),    \* edge null
      Node("obj", "cid", "obj", NULL, NULL, NULL, "count0"),         \* fields null
      Node("obj", "cid", NULL, ABSENT, "ts", "txt", "countN"),       \* owner null
      Node("obj", "cid", "obj", "user", "ts", "txt", NULL),          \* etc null
      Node("obj", "cid", "obj", "user", "ts", "txt", "countNull") }  \* count null

Irregulars(edges) == Cardinality({ i \in DOMAIN edges : edges[i] \in IGIrregularNodes })

\* page requests of one walk counted in the history, later ones uncounted
MaxCalls == 4

\* the history of a walk before its first request
NoWalk == [calls |-> 0, first_false |-> 0, sent |-> {}]

\* the history of a walk after one more request, sent with cursor and
\* answered by resp
WalkStep(walk, cursor, resp) ==
    LET n == IF walk.calls < MaxCalls THEN walk.calls + 1 ELSE MaxCalls
    IN  [calls |-> n,
         first_false |-> IF walk.first_false = 0 /\ ~resp.hn /\ walk.calls < MaxCalls
                         THEN n ELSE walk.first_false,
         sent |-> walk.sent \cup { cursor }]

\* the same for a reply walk, of which cursors and shapes are not kept
RepWalkStep(walk, resp) ==
    [WalkStep(walk, "", resp) EXCEPT !.sent = {}]

\* end_cursor values: empty (from start) or an opaque token
Cursors == { "", "c1" }

\* cost of a response against the irregularity budget
Cost(kind, shape, edges, pi) ==
    IF kind # "ok" \/ shape # "page" \/ pi # "obj" THEN 1 ELSE Irregulars(edges)

\* a response to a page request.  kind: what the HTTP exchange did; shape:
\* which containers the JSON body carries; pi: the page_info object
Response(kind, shape, edges, pi, hn, ec) ==
    [kind |-> kind, shape |-> shape, edges |-> edges, pi |-> pi, hn |-> hn, ec |-> ec,
     cost |-> Cost(kind, shape, edges, pi)]

\* what page_info may say: a last page carries no cursor
PageInfos == { << TRUE, ec >> : ec \in Cursors } \cup { << FALSE, "" >> }

\* pages of at most n edges with at most k irregular nodes, over node sets R, I
PagesOver(R, I, n, k) ==
    { Response("ok", "page", e, "obj", p[1], p[2]) :
        e \in { s \in SeqUpTo(R \cup I, n) : Irregulars(s) <= k },
        p \in PageInfos }

\* bodies that carry no usable page
BrokenResponses ==
    { Response(k[1], k[2], << >>, ABSENT, FALSE, "") :
        k \in { << "transport", "none" >>,      \* RequestException, non-2xx status
                << "badjson", "none" >>,        \* body is not JSON
                << "ok", "empty" >>,            \* {}
                << "ok", "data_null" >>,        \* {"data": null}
                << "ok", "no_container" >>,     \* data without the container
                << "ok", "container_null" >>,   \* container: null
                << "ok", "no_edge_info" >>,     \* container without the edge object
                << "ok", "edges_null" >> } }    \* edges: null

\* pages whose page_info is missing or null
BadPageInfo(R, n) ==
    { Response("ok", "page", e, pi, FALSE, "") :
        e \in SeqUpTo(R, n), pi \in { ABSENT, NULL } }

AllResponses(R) ==
    PagesOver(R, IGIrregularNodes, MaxPageLen, MaxIrregular)
      \cup BrokenResponses \cup BadPageInfo(R, MaxPageLen)

\* every response to a top-level request, and to a reply request
IGTopResponses == AllResponses(IGRegularNodes)
IGRepResponses == AllResponses(IGRegularReplies)

\* the responses of All with at most n edges and at most k irregularities
Within(All, n, k) == { r \in All : Len(r.edges) <= n /\ r.cost <= k }

----------------------------------------------------------------------------
(* Instagram: the code *)

\* a graphql_request that lets the RequestException of a failed exchange out
GraphqlRequestRaising(resp, jsonIsReqExc) ==
    CASE resp.kind = "transport" -> [exc |-> "RequestException", shape |-> "empty"]
      [] resp.kind = "badjson" ->
            IF jsonIsReqExc THEN [exc |-> "RequestException", shape |-> "empty"]
            ELSE [exc |-> "ValueError", shape |-> "empty"]
      [] OTHER -> [exc |-> "none", shape |-> resp.shape]

\* graphql_request: the dict handed back, or the exception that leaves it.
\* A RequestException is caught and {} returned.  A body that is not JSON
\* raises from r.json(): a RequestException subclass in requests >= 2.27
\* (jsonIsReqExc), a plain ValueError before.
GraphqlRequest(resp, jsonIsReqExc) ==
    CASE resp.kind = "transport" -> [exc |-> "none", shape |-> "empty"]
      [] resp.kind = "badjson" ->
            IF jsonIsReqExc THEN [exc |-> "none", shape |-> "empty"]
            ELSE [exc |-> "ValueError", shape |-> "empty"]
      [] OTHER -> [exc |-> "none", shape |-> resp.shape]

\* the normalized record built from a node; src says where the platform served it
IGRecord(node, shortcode, src) ==
    [post_id |-> shortcode,
     username |-> Get(node.username, ""),
     created_at |-> Get(node.created_at, ""),
     comment_text |-> Get(node.text, ""),
     src |-> src]

\* edge.get("node", {}) on a null edge, node.get("owner", {}).get(...) on a
\* null owner: None has no get
NodeExc(node) ==
    IF node.edge = NULL THEN "AttributeError"
    ELSE IF node.owner = NULL THEN "AttributeError"
    ELSE "none"

\* `if node:` an empty dict is falsy
NodeTruthy(node) ==
    \E f \in { "id", "owner", "username", "created_at", "text", "etc" } :
        node[f] # ABSENT

\* node.get("edge_threaded_comments", {}).get("count", 0) > 0
\* the exception, or whether the reply walk is started
CountCheck(node) ==
    CASE node.etc = NULL -> [exc |-> "AttributeError", go |-> FALSE]
      [] node.etc = "countNull" -> [exc |-> "TypeError", go |-> FALSE]
      [] node.etc = "countN" -> [exc |-> "none", go |-> TRUE]
      [] OTHER -> [exc |-> "none", go |-> FALSE]

\* except clause of fetch_comments
FetchCommentsCatches(exc) == exc \in { "KeyError", "TypeError" }
\* except clause of fetch_replies
FetchRepliesCatches(exc) == exc \in { "KeyError" }
\* an except clause of scrape_comments as narrow as that of fetch_comments
IGScrapeCatchesParseOnly(exc) == exc \in { "KeyError", "TypeError" }
\* except clause of scrape_comments
IGScrapeCatches(exc) == exc # "none"

\* replies put in front of all_comments
ExtendFront(all, replies) == replies \o all
\* all_comments.extend(replies)
Extend(all, replies) == all \o replies

\* a has_next that is never false
HasNextAlways(pinfo) == TRUE

\* page_info.get("has_next_page", False), page_info.get("end_cursor", "")
PageInfoExc(pinfo) == IF pinfo.pi = NULL THEN "AttributeError" ELSE "none"
HasNextOf(pinfo) == IF pinfo.pi = "obj" THEN pinfo.hn ELSE FALSE
CursorOf(pinfo) == IF pinfo.pi = "obj" THEN pinfo.ec ELSE ""

\* the part of the state fetch_comments and scrape_comments write
IGCur ==
    [pc |-> ig_pc, all |-> ig_all, result |-> ig_result, exit |-> ig_exit,
     fault |-> ig_fault, edges |-> ig_edges, pos |-> ig_pos, served |-> ig_served,
     has_next |-> ig_has_next, cursor |-> ig_cursor]

IGApply(r) ==
    /\ ig_pc' = r.pc
    /\ ig_all' = r.all
    /\ ig_result' = r.result
    /\ ig_exit' = r.exit
    /\ ig_fault' = r.fault
    /\ ig_edges' = r.edges
    /\ ig_pos' = r.pos
    /\ ig_served' = r.served
    /\ ig_has_next' = r.has_next
    /\ ig_cursor' = r.cursor

\* the loop of fetch_comments is left (break, or has_next false) and
\* scrape_comments returns all_comments
IGEnd(cur, how) ==
    [cur EXCEPT !.pc = "done", !.result = cur.all, !.exit = how]

\* an exception raised in fetch_comments, inside its try block or not: caught
\* there (log, break), else by scrape_comments (log, return []), else it
\* leaves scrape_comments
IGThrow(cur, exc, inTry) ==
    IF inTry /\ FetchCommentsCatches(exc)
    THEN IGEnd([cur EXCEPT !.fault = exc], "parse_error")
    ELSE IF IGScrapeCatches(exc)
    THEN [cur EXCEPT !.pc = "done", !.result = << >>, !.exit = "raised", !.fault = exc]
    ELSE [cur EXCEPT !.pc = "crashed", !.result = << >>, !.exit = "escaped",
                     !.fault = exc]

\* the end of the loop body of fetch_comments: page_info, then sleep and the
\* next turn, or the end of the walk
IGPageEnd(cur, pinfo) ==
    IF PageInfoExc(pinfo) # "none" THEN IGThrow(cur, PageInfoExc(pinfo), TRUE)
    ELSE LET c == [cur EXCEPT !.has_next = HasNextOf(pinfo), !.cursor = CursorOf(pinfo)]
         IN  IF c.has_next THEN [c EXCEPT !.pc = "top_sleep"]
             ELSE IGEnd(c, "exhausted")

\* the edge loop of fetch_comments from the state cur on, up to the next
\* network call (the first page request of a reply walk, pc = "rep_req"), the
\* sleep before the next page, or the end of the scrape
RECURSIVE IGEdgeLoop(_, _, _)
IGEdgeLoop(cur, pinfo, tpage) ==
    IF cur.edges = << >> THEN IGPageEnd(cur, pinfo)
    ELSE LET node == Head(cur.edges)
             src == << tpage, cur.pos + 1, 0, 0 >>
             c0 == [cur EXCEPT !.edges = Tail(cur.edges), !.pos = cur.pos + 1]
             c1 == [c0 EXCEPT !.all = Append(cur.all, IGRecord(node, Shortcode, src)),
                              !.served = cur.served \cup { src }]
             cc == CountCheck(node)
         IN  IF NodeExc(node) # "none" THEN IGThrow(c0, NodeExc(node), TRUE)
             ELSE IF ~NodeTruthy(node) THEN IGEdgeLoop(c0, pinfo, tpage)
             ELSE IF cc.exc # "none" THEN IGThrow(c1, cc.exc, TRUE)
             ELSE IF cc.go THEN [c1 EXCEPT !.pc = "rep_req"]
             ELSE IGEdgeLoop(c1, pinfo, tpage)

\* src of the comments for which fetch_comments or fetch_replies logged an
\* event of their own.  They log the start, each reply walk ('Fetching n
\* replies for comment ...'), each next page and the errors; no statement
\* logs a comment when its record is appended.
IGCommentEvents == {}

\* the locals of fetch_replies at its start, and again once it is left
IGRepLocalsReset ==
    /\ ig_replies' = << >>
    /\ ig_rhas_next' = TRUE
    /\ ig_rcursor' = ""
    /\ ig_rpage' = 0
    /\ ig_rev' = << >>

\* scrape_comments(post_id): build_headers, then fetch_comments up to its
\* first page request
IGScrape ==
    /\ w_pc = "scraping"
    /\ platform = "instagram"
    /\ ig_pc = "idle"
    /\ ig_pc' = "top_req"
    /\ ig_all' = << >>
    /\ ig_has_next' = TRUE
    /\ ig_cursor' = ""
    /\ UNCHANGED << ig_edges, ig_pinfo, ig_pos, ig_replies, ig_rhas_next, ig_rcursor,
                    ig_result, ig_tpage, ig_rpage, ig_served, ig_nodes, ig_irreg,
                    ig_exit, ig_fault, ig_last, ig_rlast, ig_ev, ig_rev, ig_walk,
                    ig_rwalk, ig_hist, ig_budget >>
    /\ UNCHANGED << tt_vars, u_vars, w_vars, s_vars, f_vars, l_vars, platform >>

\* what fetch_comments does with the body of a top-level response, up to the
\* edge loop: "break", "raise" (with exc, inTry) or "edges"
TopBody(shape) ==
    CASE shape \in { "empty", "no_container", "container_null" } ->
            [do |-> "break", how |-> "invalid_data", exc |-> "none", inTry |-> FALSE]
      [] shape = "data_null" ->
            [do |-> "raise", how |-> "", exc |-> "AttributeError", inTry |-> FALSE]
      [] shape = "no_edge_info" ->
            [do |-> "break", how |-> "no_comments", exc |-> "none", inTry |-> TRUE]
      [] shape = "edges_null" ->
            [do |-> "raise", how |-> "", exc |-> "TypeError", inTry |-> TRUE]
      [] OTHER ->
            [do |-> "edges", how |-> "", exc |-> "none", inTry |-> TRUE]

\* one top-level page request of fetch_comments and the loop body that
\* follows it, up to the next network call or sleep
IGTopFetch ==
    /\ ig_pc = "top_req"
    /\ \E resp \in Within(IGTopResponses, MaxNodes - ig_nodes, ig_budget - ig_irreg),
          jsonIsReqExc \in BOOLEAN :
        LET d == GraphqlRequest(resp, jsonIsReqExc)
            b == TopBody(d.shape)
            pinfo == [pi |-> resp.pi, hn |-> resp.hn, ec |-> resp.ec]
            tp == IF Len(resp.edges) > 0 THEN ig_tpage + 1 ELSE ig_tpage
        IN  /\ resp.kind # "badjson" => jsonIsReqExc
            /\ ig_ev' = Push2(ig_ev, "fetch")
            /\ ig_last' = IF resp.kind = "ok" THEN resp.shape ELSE resp.kind
            /\ ig_walk' = IF ig_hist THEN WalkStep(ig_walk, ig_cursor, resp) ELSE ig_walk
            /\ ig_nodes' = ig_nodes + Len(resp.edges)
            /\ ig_irreg' = ig_irreg + resp.cost
            /\ IF d.exc # "none"
               THEN /\ \E r \in { IGThrow(IGCur, d.exc, FALSE) } : IGApply(r)
                    /\ UNCHANGED << ig_pinfo, ig_tpage >>
               ELSE IF b.do = "break"
               THEN /\ \E r \in { IGEnd(IGCur, b.how) } : IGApply(r)
                    /\ UNCHANGED << ig_pinfo, ig_tpage >>
               ELSE IF b.do = "raise"
               THEN /\ \E r \in { IGThrow(IGCur, b.exc, b.inTry) } : IGApply(r)
                    /\ UNCHANGED << ig_pinfo, ig_tpage >>
               ELSE /\ \E r \in { IGEdgeLoop([IGCur EXCEPT !.edges = resp.edges,
                                                            !.pos = 0], pinfo, tp) } :
                          IGApply(r)
                    /\ ig_pinfo' = pinfo
                    /\ ig_tpage' = tp
    /\ IGRepLocalsReset
    /\ UNCHANGED << ig_rlast, ig_rwalk, ig_hist, ig_budget >>
    /\ UNCHANGED << tt_vars, u_vars, w_vars, s_vars, f_vars, l_vars, platform >>

\* sleep(2) of fetch_comments, taken when has_next
IGTopSleep ==
    /\ ig_pc = "top_sleep"
    /\ ig_pc' = "top_req"
    /\ ig_ev' = Push2(ig_ev, "sleep")
    /\ UNCHANGED << ig_all, ig_has_next, ig_cursor, ig_edges, ig_pinfo, ig_pos,
                    ig_replies, ig_rhas_next, ig_rcursor, ig_result, ig_tpage, ig_rpage,
                    ig_served, ig_nodes, ig_irreg, ig_exit, ig_fault, ig_last, ig_rlast,
                    ig_rev, ig_walk, ig_rwalk, ig_hist, ig_budget >>
    /\ UNCHANGED << tt_vars, u_vars, w_vars, s_vars, f_vars, l_vars, platform >>

\* the edge loop of fetch_replies over one page, from edge i on: the records
\* appended and the exception that stopped it
RECURSIVE RepEdges(_, _, _, _)
RepEdges(edges, i, src3, acc) ==
    IF i > Len(edges) THEN [exc |-> "none", recs |-> acc]
    ELSE IF NodeExc(edges[i]) # "none" THEN [exc |-> NodeExc(edges[i]), recs |-> acc]
    ELSE IF ~NodeTruthy(edges[i]) THEN RepEdges(edges, i + 1, src3, acc)
    ELSE RepEdges(edges, i + 1, src3,
                  Append(acc, IGRecord(edges[i], Shortcode, Append(src3, i))))

\* what fetch_replies does with the body of a response, up to the edge loop
RepBody(shape) ==
    CASE shape \in { "empty", "no_container", "no_edge_info" } ->
            [do |-> "break", exc |-> "none"]
      [] shape \in { "data_null", "container_null" } ->
            [do |-> "raise", exc |-> "AttributeError"]
      [] shape = "edges_null" ->
            [do |-> "raise", exc |-> "TypeError"]
      [] OTHER ->
            [do |-> "edges", exc |-> "none"]

\* src of the records a reply page yields when nothing fails
RepSrcs(edges, src3) ==
    { Append(src3, i) : i \in { j \in DOMAIN edges :
                                  NodeExc(edges[j]) = "none" /\ NodeTruthy(edges[j]) } }

\* a fetch_replies that hands back an empty list whatever it gathered
IGRepReturnEmpty(replies, served) ==
    /\ \E r \in { IGEdgeLoop([IGCur EXCEPT !.served = served], ig_pinfo, ig_tpage) } :
          IGApply(r)
    /\ IGRepLocalsReset

\* fetch_replies returns all_replies; fetch_comments extends all_comments with
\* them and goes on with its edge loop.  The locals of fetch_replies are gone.
IGRepReturn(replies, served) ==
    /\ \E r \in { IGEdgeLoop([IGCur EXCEPT !.all = Extend(ig_all, replies),
                                            !.served = served],
                              ig_pinfo, ig_tpage) } :
          IGApply(r)
    /\ IGRepLocalsReset

\* an exception raised in fetch_replies, inside its try block or not: caught
\* there (log, break), else it travels into the try block of fetch_comments
IGRepThrow(replies, served, exc, inTry) ==
    IF inTry /\ FetchRepliesCatches(exc) THEN IGRepReturn(replies, served)
    ELSE /\ \E r \in { IGThrow([IGCur EXCEPT !.served = served], exc, TRUE) } :
               IGApply(r)
         /\ IGRepLocalsReset

\* one page request of fetch_replies, its loop body, and when the walk ends
\* the rest of the edge loop of fetch_comments up to the next network call
IGRepFetch ==
    /\ ig_pc = "rep_req"
    /\ \E resp \in Within(IGRepResponses, MaxNodes - ig_nodes, ig_budget - ig_irreg),
          jsonIsReqExc \in BOOLEAN :
        LET d == GraphqlRequest(resp, jsonIsReqExc)
            b == RepBody(d.shape)
            rp == IF Len(resp.edges) > 0 THEN ig_rpage + 1 ELSE ig_rpage
            src3 == << ig_tpage, ig_pos, rp >>
            pinfo == [pi |-> resp.pi, hn |-> resp.hn, ec |-> resp.ec]
            e == RepEdges(resp.edges, 1, src3, ig_replies)
            served == ig_served \cup RepSrcs(resp.edges, src3)
        IN  /\ resp.kind # "badjson" => jsonIsReqExc
            /\ ig_rlast' = resp.kind
            /\ ig_rwalk' = IF ig_hist
                           THEN RepWalkStep(IF ig_rev = << >> THEN NoWalk ELSE ig_rwalk,
                                            resp)
                           ELSE ig_rwalk
            /\ ig_nodes' = ig_nodes + Len(resp.edges)
            /\ ig_irreg' = ig_irreg + resp.cost
            /\ IF d.exc # "none" THEN IGRepThrow(ig_replies, ig_served, d.exc, FALSE)
               ELSE IF b.do = "break" THEN IGRepReturn(ig_replies, ig_served)
               ELSE IF b.do = "raise" THEN IGRepThrow(ig_replies, ig_served, b.exc, TRUE)
               ELSE IF e.exc # "none" THEN IGRepThrow(e.recs, served, e.exc, TRUE)
               ELSE IF PageInfoExc(pinfo) # "none"
               THEN IGRepThrow(e.recs, served, PageInfoExc(pinfo), TRUE)
               ELSE IF HasNextOf(pinfo)
               THEN /\ ig_pc' = "rep_sleep"
                    /\ ig_replies' = e.recs
                    /\ ig_rhas_next' = TRUE
                    /\ ig_rcursor' = CursorOf(pinfo)
                    /\ ig_rpage' = rp
                    /\ ig_rev' = Push2(ig_rev, "fetch")
                    /\ ig_served' = served
                    /\ UNCHANGED << ig_all, ig_result, ig_exit, ig_fault, ig_edges,
                                    ig_pos, ig_has_next, ig_cursor >>
               ELSE IGRepReturn(e.recs, served)
    /\ UNCHANGED << ig_pinfo, ig_tpage, ig_ev, ig_last, ig_walk, ig_hist, ig_budget >>
    /\ UNCHANGED << tt_vars, u_vars, w_vars, s_vars, f_vars, l_vars, platform >>

\* sleep(2) of fetch_replies, taken when has_next
IGRepSleep ==
    /\ ig_pc = "rep_sleep"
    /\ ig_pc' = "rep_req"
    /\ ig_rev' = Push2(ig_rev, "sleep")
    /\ UNCHANGED << ig_all, ig_has_next, ig_cursor, ig_edges, ig_pinfo, ig_pos,
                    ig_replies, ig_rhas_next, ig_rcursor, ig_result, ig_tpage, ig_rpage,
                    ig_served, ig_nodes, ig_irreg, ig_exit, ig_fault, ig_last, ig_rlast,
                    ig_ev, ig_walk, ig_rwalk, ig_hist, ig_budget >>
    /\ UNCHANGED << tt_vars, u_vars, w_vars, s_vars, f_vars, l_vars, platform >>

IGStart ==
    /\ ig_pc = "idle"
    /\ ig_all = << >>
    /\ ig_has_next = TRUE
    /\ ig_cursor = ""
    /\ ig_edges = << >>
    /\ ig_pinfo = [pi |-> ABSENT, hn |-> FALSE, ec |-> ""]
    /\ ig_pos = 0
    /\ ig_replies = << >>
    /\ ig_rhas_next = TRUE
    /\ ig_rcursor = ""
    /\ ig_result = << >>
    /\ ig_tpage = 0
    /\ ig_rpage = 0
    /\ ig_served = {}
    /\ ig_nodes = 0
    /\ ig_irreg = 0
    /\ ig_exit = "none"
    /\ ig_fault = "none"
    /\ ig_last = "none"
    /\ ig_rlast = "none"
    /\ ig_ev = << >>
    /\ ig_rev = << >>
    /\ ig_walk = NoWalk
    /\ ig_rwalk = NoWalk

IGInit == IGStart /\ ig_hist = FALSE /\ ig_budget = MaxIrregular

----------------------------------------------------------------------------
(* TikTok: comments and responses the platform may serve *)

\* the video identifier handed to the scrape
AwemeId == "VIDEO"

\* an element of the comments list of a response: cid, user.unique_id,
\* user.nickname, text, create_time, user.avatar_thumb.url_list[0],
\* reply_comment_total; elem is NULL when the element itself is null.  A field
\* the JSON does not carry projects to null, like a field that is null.
Raw(elem, cid, unique_id, nickname, text, create_time, avatar, total) ==
    [elem |-> elem, cid |-> cid, unique_id |-> unique_id, nickname |-> nickname,
     text |-> text, create_time |-> create_time, avatar |-> avatar, total |-> total]

FullRaw(total) == Raw("obj", "cid", "user", "nick", "txt", "ts", "url", total)

\* well-formed comments: reply_comment_total 0, or positive
TTLeaves == { FullRaw("zero") }
TTParents == { FullRaw("some") }

TTIrregularRaws ==
    { Raw("obj", "cid", NULL, "nick", "txt", NULL, "url", "zero"),   \* fields null
      Raw("obj", "cid", "user", "nick", "txt", "ts", "url", NULL),   \* no total
      Raw("obj", "cid", "user", "nick", NULL, "ts", "url", "some"),  \* text null
      Raw(NULL, NULL, NULL, NULL, NULL, NULL, NULL, NULL) }          \* element null

TTIrregulars(list) ==
    Cardinality({ i \in DOMAIN list : list[i] \in TTIrregularRaws })

\* a response to a page request.  kind: what the exchange and the decoding of
\* the body did; hm: the has_more flag of the body
TTCost(kind, list, hm) ==
    IF kind # "ok" \/ hm = NULL THEN 1 ELSE TTIrregulars(list)

TTResponse(kind, list, hm) ==
    [kind |-> kind, comments |-> list, hm |-> hm, cost |-> TTCost(kind, list, hm)]

TTBroken ==
    { TTResponse(k, << >>, "false") :
        k \in { "transport",        \* session.get raises
                "badjson",          \* response.json() raises
                "null_body",        \* the body is null
                "comments_null" } } \* comments: null

TTPages(R) ==
    { TTResponse("ok", l, hm) :
        l \in { q \in SeqUpTo(R \cup TTIrregularRaws, MaxPageLen) :
                  TTIrregulars(q) <= MaxIrregular },
        hm \in { "true", "false", NULL } }

\* every response to a request of depth d (0: the comment list of the video)
TTResponsesAll == TTPages(TTLeaves \cup TTParents) \cup TTBroken
TTResponsesLeaf == TTPages(TTLeaves) \cup TTBroken
TTResponses(d) == IF d < MaxDepth THEN TTResponsesAll ELSE TTResponsesLeaf

\* the responses of All with at most n comments and at most k irregularities
TTWithin(All, n, k) == { r \in All : Len(r.comments) <= n /\ r.cost <= k }

----------------------------------------------------------------------------
(* TikTok: the code *)

\* the exception a failed exchange raises inside the try block of get_comments
\* or get_replies
TTFetchExc(kind) ==
    CASE kind = "transport" -> "RequestException"
      [] kind = "badjson" -> "ValueError"
      [] kind = "null_body" -> "AttributeError"
      [] kind = "comments_null" -> "TypeError"
      [] OTHER -> "none"

\* the Comment dataclass, built from the projection of a raw comment
TTComment(raw, replies, src) ==
    [comment_id |-> raw.cid, username |-> raw.unique_id, nickname |-> raw.nickname,
     comment |-> raw.text, create_time |-> raw.create_time, avatar |-> raw.avatar,
     total_reply |-> raw.total, replies |-> replies, src |-> src]

\* the Comments dataclass
TTComments(comments, caption, video_url, has_more) ==
    [comments |-> comments, caption |-> caption, video_url |-> video_url,
     has_more |-> has_more]

\* what get_comments returns from its except clause
TTEmptyComments == TTComments(<< >>, "", "", "false")

\* __parse_comment on a null element: parsed_data is None, Comment(**None)
TTParseExc(raw) == IF raw.elem = NULL THEN "TypeError" ELSE "none"
\* `if parsed_data.get('total_reply')`
TTHasReplies(raw) == raw.total \notin { NULL, "zero" }
\* len(comment.comment) of the log preview
TTPreviewExc(comment) == IF comment.comment = NULL THEN "TypeError" ELSE "none"
\* `not comments.has_more`
TTHasMore(hm) == hm = "true"

\* except Exception of get_comments, of get_replies, of scrape_comments
TTGetCommentsCatches(exc) == exc # "none"
TTGetRepliesCatches(exc) == exc # "none"
TTScrapeCatches(exc) == exc # "none"

\* a call in progress: get_comments parsing the list of a page (kind "top"),
\* or get_all_replies walking the replies of the comment the frame below is
\* parsing (kind "rep")
TTFrame(kind, psrc, page, todo, idx, out, acc, hm, ev) ==
    [kind |-> kind,   \* "top" or "rep"
     psrc |-> psrc,   \* src of the comment whose replies are walked
     page |-> page,   \* the page being parsed, or requested next
     todo |-> todo,   \* elements of the page not yet parsed
     idx |-> idx,     \* position in the page of the element last taken
     out |-> out,     \* list comprehension: the comments parsed on this page
     acc |-> acc,     \* get_all_replies: the replies yielded by the pages before
     hm |-> hm,       \* get_comments: has_more of the page
     pend |-> FullRaw("zero"), \* the comment that waits for its replies
     ev |-> ev]       \* last two rate events of this walk

TTTop(stack) == stack[Len(stack)]
TTPop(stack) == SubSeq(stack, 1, Len(stack) - 1)
TTSetTop(stack, f) == [stack EXCEPT ![Len(stack)] = f]

\* caption and video_url: comments[0].share_info of the body of a page, null
\* without one; the platform may word them differently from page to page
TTCaptionOf(list, page) ==
    IF list = << >> THEN NULL ELSE "caption" \o ToString(page)
TTUrlOf(list, page) ==
    IF list = << >> THEN NULL ELSE "video_url" \o ToString(page)

\* The interpreter of the calls in progress, run from one network call to the
\* next.  Its result: st = "rep_req" (get_replies is about to send a request),
\* "page_done" (get_comments returned ret) or "raise" (exc left get_comments).
RECURSIVE TTRun(_), TTFinish(_, _, _, _), TTAbort(_, _), TTWalkEnd(_)

\* the list comprehension of get_comments / get_replies and __parse_comment
TTRun(stack) ==
    LET f == TTTop(stack) IN
    IF f.todo = << >>
    THEN IF f.kind = "top"
         THEN [st |-> "page_done", stack |-> << >>, exc |-> "none", logged |-> {},
               ret |-> TTComments(f.out, TTCaptionOf(f.out, f.page),
                                 TTUrlOf(f.out, f.page), f.hm)]
         ELSE \* get_all_replies: yield the page, page += 1, next request
              [st |-> "rep_req", exc |-> "none", ret |-> TTEmptyComments, logged |-> {},
               stack |-> TTSetTop(stack, [f EXCEPT !.acc = f.acc \o f.out,
                                                   !.out = << >>,
                                                   !.page = f.page + 1])]
    ELSE LET raw == Head(f.todo)
             f1 == [f EXCEPT !.todo = Tail(f.todo), !.idx = f.idx + 1]
             src == f.psrc \o << f.page, f.idx + 1 >>
         IN  IF TTParseExc(raw) # "none" THEN TTAbort(TTSetTop(stack, f1), TTParseExc(raw))
             ELSE IF TTHasReplies(raw)
             THEN [st |-> "rep_req", exc |-> "none", ret |-> TTEmptyComments,
                   logged |-> {},
                   stack |-> Append(TTSetTop(stack, [f1 EXCEPT !.pend = raw]),
                                    TTFrame("rep", src, 1, << >>, 0, << >>, << >>,
                                            "false", << >>))]
             ELSE TTFinish(TTSetTop(stack, f1), raw, << >>, src)

\* the end of __parse_comment: the Comment is built, the preview logged, the
\* comment handed to the list comprehension of the top frame
TTFinish(stack, raw, replies, src) ==
    LET c == TTComment(raw, replies, src)
        f == TTTop(stack)
        m == TTRun(TTSetTop(stack, [f EXCEPT !.out = Append(f.out, c)]))
    IN  IF TTPreviewExc(c) # "none" THEN TTAbort(stack, TTPreviewExc(c))
        ELSE [m EXCEPT !.logged = @ \cup { src }]

\* get_all_replies of the top frame is exhausted: list(...) holds its replies
\* and __parse_comment of the frame below goes on
TTWalkEnd(stack) ==
    LET f == TTTop(stack)
        below == TTPop(stack)
    IN  TTFinish(below, TTTop(below).pend, f.acc, f.psrc)

\* exc is raised in the call of the top frame: caught by its except clause
\* (get_comments returns the empty aggregate, get_replies returns []), else it
\* travels down the calls in progress and in the end leaves get_all_comments
TTAbort(stack, exc) ==
    LET f == TTTop(stack) IN
    IF f.kind = "top"
    THEN IF TTGetCommentsCatches(exc)
         THEN [st |-> "page_done", stack |-> << >>, exc |-> "none", logged |-> {},
               ret |-> TTEmptyComments]
         ELSE [st |-> "raise", stack |-> << >>, exc |-> exc, logged |-> {},
               ret |-> TTEmptyComments]
    ELSE IF TTGetRepliesCatches(exc)
         THEN TTWalkEnd(stack)  \* `if not replies: break`
         ELSE TTAbort(TTPop(stack), exc)

\* a standardization that turns create_time into text
TTStandardizeStr(comment, aweme_id) ==
    [post_id |-> aweme_id,
     username |-> comment.username,
     created_at |-> "str(" \o comment.create_time \o ")",
     comment_text |-> comment.comment,
     src |-> comment.src]

\* for comment in comment_list: the standardized record of a comment
TTStandardize(comment, aweme_id) ==
    [post_id |-> aweme_id,
     username |-> comment.username,
     created_at |-> comment.create_time,
     comment_text |-> comment.comment,
     src |-> comment.src]

\* scrape_comments, after get_all_comments: comments.dict['comments'], one
\* standardized record for each element of that list
TTScrapeOut(comments, aweme_id) ==
    [i \in DOMAIN comments |-> TTStandardize(comments[i], aweme_id)]

\* a get_all_comments that takes caption and video_url from each page it keeps
TTAfterPageLatest(page, data, ret) ==
    IF page = 1 THEN [pc |-> "top_req", data |-> ret, page |-> 2]
    ELSE IF ~TTHasMore(ret.has_more) THEN [pc |-> "return", data |-> data, page |-> page]
    ELSE [pc |-> "top_req", page |-> page + 1,
          data |-> [ret EXCEPT !.comments = data.comments \o ret.comments,
                               !.has_more = data.has_more]]

\* get_all_comments, once get_comments has returned ret for tt_page: page 1
\* seeds data; a later page ends the walk when it reports no more, and is
\* appended otherwise
TTAfterPage(page, data, ret) ==
    IF page = 1 THEN [pc |-> "top_req", data |-> ret, page |-> 2]
    ELSE IF ~TTHasMore(ret.has_more) THEN [pc |-> "return", data |-> data, page |-> page]
    ELSE [pc |-> "top_req", page |-> page + 1,
          data |-> [data EXCEPT !.comments = data.comments \o ret.comments]]

\* the machine m = TTRun(..) / TTAbort(..) applied to the state
TTApply(m) ==
    /\ tt_logged' = tt_logged \cup m.logged
    /\ IF m.st = "rep_req"
       THEN /\ tt_pc' = "rep_req"
            /\ tt_stack' = m.stack
            /\ UNCHANGED << tt_page, tt_data, tt_result, tt_pagelog >>
       ELSE IF m.st = "raise"
       THEN /\ tt_pc' = IF TTScrapeCatches(m.exc) THEN "done" ELSE "crashed"
            /\ tt_stack' = << >>
            /\ tt_result' = << >>
            /\ UNCHANGED << tt_page, tt_data, tt_pagelog >>
       ELSE LET a == TTAfterPage(tt_page, tt_data, m.ret)
            IN  /\ tt_stack' = << >>
                /\ tt_pagelog' = Append(tt_pagelog, m.ret)
                /\ tt_data' = a.data
                /\ tt_page' = a.page
                /\ IF a.pc = "return"
                   THEN /\ tt_pc' = "done"
                        /\ tt_result' = TTScrapeOut(a.data.comments, AwemeId)
                   ELSE /\ tt_pc' = "top_req"
                        /\ UNCHANGED tt_result

\* get_comments(aweme_id, page) from the response on: the exception of the
\* exchange, or the parsing of the comments of the page
TTTopStep(page, resp) ==
    LET f == TTFrame("top", << >>, page, resp.comments, 0, << >>, << >>,
                     resp.hm, << >>)
    IN  IF TTFetchExc(resp.kind) # "none"
        THEN TTAbort(<< f >>, TTFetchExc(resp.kind))
        ELSE TTRun(<< f >>)

\* get_replies(comment_id, page) from the response on, and get_all_replies
\* after it: an empty page ends the walk
TTRepStep(stack, resp) ==
    LET f == TTTop(stack)
        f1 == [f EXCEPT !.todo = resp.comments, !.idx = 0, !.out = << >>,
                        !.ev = Push2(f.ev, "fetch")]
        st1 == TTSetTop(stack, f1)
    IN  IF TTFetchExc(resp.kind) # "none" THEN TTAbort(st1, TTFetchExc(resp.kind))
        ELSE IF resp.comments = << >> THEN TTWalkEnd(st1)
        ELSE TTRun(st1)

\* the elements of the list a response carries for a page, as the history
\* keeps them: where they were served, whether the element is an object, and
\* its create_time
TTElements(psrc, page, list) ==
    { [src |-> psrc \o << page, i >>, obj |-> list[i].elem # NULL,
       create_time |-> list[i].create_time] : i \in DOMAIN list }

\* scrape_comments(aweme_id) up to the request for page 1
TTScrape ==
    /\ w_pc = "scraping"
    /\ platform = "tiktok"
    /\ tt_pc = "idle"
    /\ tt_pc' = "top_req"
    /\ tt_page' = 1
    /\ UNCHANGED << tt_data, tt_stack, tt_result, tt_pagelog, tt_nodes, tt_irreg, tt_ev,
                    tt_logged, tt_served, tt_asked >>
    /\ UNCHANGED << ig_vars, u_vars, w_vars, s_vars, f_vars, l_vars, platform >>

\* get_comments(aweme_id, page): one request to the comment list, and the
\* parsing of its comments up to the next network call
TTTopFetch ==
    /\ tt_pc = "top_req"
    /\ \E resp \in TTWithin(TTResponses(0), MaxNodes - tt_nodes, MaxIrregular - tt_irreg) :
        /\ tt_page >= MaxPages => ~TTHasMore(resp.hm)
        /\ tt_ev' = Push2(tt_ev, "fetch")
        /\ tt_nodes' = tt_nodes + Len(resp.comments)
        /\ tt_irreg' = tt_irreg + resp.cost
        /\ tt_served' = tt_served \cup TTElements(<< >>, tt_page, resp.comments)
        /\ UNCHANGED tt_asked
        /\ \E m \in { TTTopStep(tt_page, resp) } : TTApply(m)
    /\ UNCHANGED << ig_vars, u_vars, w_vars, s_vars, f_vars, l_vars, platform >>

\* get_replies(comment_id, page): one request to the reply list, and the
\* parsing that follows up to the next network call
TTRepFetch ==
    /\ tt_pc = "rep_req"
    /\ \E resp \in TTWithin(TTResponses(Len(tt_stack) - 1), MaxNodes - tt_nodes,
                            MaxIrregular - tt_irreg) :
        /\ resp.hm = "false"
        /\ tt_nodes' = tt_nodes + Len(resp.comments)
        /\ tt_irreg' = tt_irreg + resp.cost
        /\ tt_served' = tt_served \cup TTElements(TTTop(tt_stack).psrc,
                                                  TTTop(tt_stack).page, resp.comments)
        /\ tt_asked' = tt_asked \cup { Append(TTTop(tt_stack).psrc, TTTop(tt_stack).page) }
        /\ \E m \in { TTRepStep(tt_stack, resp) } : TTApply(m)
    /\ UNCHANGED tt_ev
    /\ UNCHANGED << ig_vars, u_vars, w_vars, s_vars, f_vars, l_vars, platform >>

TTInit ==
    /\ tt_pc = "idle"
    /\ tt_page = 0
    /\ tt_data = TTEmptyComments
    /\ tt_stack = << >>
    /\ tt_result = << >>
    /\ tt_pagelog = << >>
    /\ tt_nodes = 0
    /\ tt_irreg = 0
    /\ tt_ev = << >>
    /\ tt_logged = {}
    /\ tt_served = {}
    /\ tt_asked = {}

----------------------------------------------------------------------------
(* extract_post_id: urls are sequences of characters *)

\* Python None
None == << "None" >>

Lower == { "a", "b", "c", "d", "e", "f", "g", "h", "i", "j", "k", "l", "m",
           "n", "o", "p", "q", "r", "s", "t", "u", "v", "w", "x", "y", "z" }
Upper == { "A", "B", "C", "D", "E", "F", "G", "H", "I", "J", "K", "L", "M",
           "N", "O", "P", "Q", "R", "S", "T", "U", "V", "W", "X", "Y", "Z" }
Digits == { "0", "1", "2", "3", "4", "5", "6", "7", "8", "9" }
\* characters that urls of the model are written with
Chars == Lower \cup Upper \cup Digits \cup { "_", "-", ".", "/", ":", "@", "?", "=" }

\* [A-Za-z0-9_]
ShortcodeCharsNoDash == Lower \cup Upper \cup Digits \cup { "_" }
\* [A-Za-z0-9_-]
ShortcodeChars == Lower \cup Upper \cup Digits \cup { "_", "-" }
\* \d
DigitChars == Digits
\* [^/]
NonSlash == Chars \ { "/" }

\* instagram\.com/p/
IGLiteral == << "i", "n", "s", "t", "a", "g", "r", "a", "m", ".", "c", "o", "m",
                "/", "p", "/" >>
\* tiktok\.com/@
TTLiteral == << "t", "i", "k", "t", "o", "k", ".", "c", "o", "m", "/", "@" >>
\* /video/
VideoLiteral == << "/", "v", "i", "d", "e", "o", "/" >>

\* the literal lit stands in s at position i
MatchLit(s, i, lit) ==
    /\ i >= 1
    /\ i + Len(lit) - 1 <= Len(s)
    /\ \A k \in 1..Len(lit) : s[i + k - 1] = lit[k]

\* class+ is greedy: the last position of the longest run of class characters
\* of s that starts at i (i - 1 when s[i] is not in the class)
RECURSIVE RunEnd(_, _, _)
RunEnd(s, i, class) ==
    IF i <= Len(s) /\ s[i] \in class THEN RunEnd(s, i + 1, class) ELSE i - 1

SetMin(S) == CHOOSE x \in S : \A y \in S : x <= y

\* re.search(r'instagram\.com/p/([A-Za-z0-9_-]+)', url): group(1) of the
\* leftmost match, or None
SearchInstagram(url) ==
    LET L == Len(IGLiteral)
        starts == { i \in 1..Len(url) :
                      /\ MatchLit(url, i, IGLiteral)
                      /\ RunEnd(url, i + L, ShortcodeChars) >= i + L }
    IN  IF starts = {} THEN None
        ELSE LET i == SetMin(starts)
             IN  SubSeq(url, i + L, RunEnd(url, i + L, ShortcodeChars))

\* re.search(r'tiktok\.com/@[^/]+/video/(\d+)', url): group(1) of the leftmost
\* match, or None.  [^/]+ ends where /video/ starts, so it is the whole run of
\* characters up to the next slash.
SearchTikTok(url) ==
    LET L == Len(TTLiteral)
        V == Len(VideoLiteral)
        NameEnd(i) == RunEnd(url, i + L, NonSlash)
        starts == { i \in 1..Len(url) :
                      /\ MatchLit(url, i, TTLiteral)
                      /\ NameEnd(i) >= i + L
                      /\ MatchLit(url, NameEnd(i) + 1, VideoLiteral)
                      /\ RunEnd(url, NameEnd(i) + 1 + V, DigitChars)
                            >= NameEnd(i) + 1 + V }
    IN  IF starts = {} THEN None
        ELSE LET i == SetMin(starts)
                 d == NameEnd(i) + 1 + V
             IN  SubSeq(url, d, RunEnd(url, d, DigitChars))

\* an extract_post_id that takes every tag but 'tiktok' for 'instagram'
ExtractPostIdAnyTag(url, tag) ==
    IF tag = "tiktok" THEN SearchTikTok(url) ELSE SearchInstagram(url)

\* extract_post_id(url, platform)
ExtractPostId(url, tag) ==
    IF tag = "instagram" THEN SearchInstagram(url)
    ELSE IF tag = "tiktok" THEN SearchTikTok(url)
    ELSE None

\* ---- the urls the model calls extract_post_id with

Schemes == { << >>,
             << "h", "t", "t", "p", "s", ":", "/", "/" >>,
             << "h", "t", "t", "p", "s", ":", "/", "/", "w", "w", "w", "." >> }
\* what follows the identifier segment
Tails == { << >>, << "/" >>, << "/", "?", "x", "=", "1" >>, << "?", "x", "=", "1" >> }
\* user names of TikTok urls
UserNames == { << "u" >>, << "a", "_", "1" >>, << "p", ".", "q" >> }
\* shortcode segments, numeric segments
ShortcodeSegs == UNION { [1..n -> { "D", "w", "9", "-", "_" }] : n \in 1..MaxIdLen }
NumericSegs == UNION { [1..n -> { "7", "0" }] : n \in 1..MaxIdLen }

\* https://www.instagram.com/p/<shortcode>/
InstagramUrl(scheme, code, tail) == scheme \o IGLiteral \o code \o tail
\* https://www.tiktok.com/@<user>/video/<digits>
TikTokUrl(scheme, user, digits, tail) ==
    scheme \o TTLiteral \o user \o VideoLiteral \o digits \o tail

\* urls of neither form
OtherUrls ==
    { << >>,
      << "h", "t", "t", "p", "s", ":", "/", "/", "x", ".", "c", "o", "m", "/" >>,
      IGLiteral,
      TTLiteral \o << "u" >> \o VideoLiteral,
      TTLiteral \o VideoLiteral \o << "7" >>,
      << "i", "n", "s", "t", "a", "g", "r", "a", "m", ".", "c", "o", "m",
         "/", "r", "e", "e", "l", "/", "D", "/" >> }

UInit ==
    /\ u_pc = "call"
    /\ u_result = None
    /\ \/ /\ u_form = "instagram"
          /\ u_id \in ShortcodeSegs
          /\ \E sc \in Schemes, t \in Tails : u_url = InstagramUrl(sc, u_id, t)
       \/ /\ u_form = "tiktok"
          /\ u_id \in NumericSegs
          /\ \E sc \in Schemes, n \in UserNames, t \in Tails :
                u_url = TikTokUrl(sc, n, u_id, t)
       \/ /\ u_form = "other"
          /\ u_id = << >>
          /\ u_url \in OtherUrls

\* the call of extract_post_id in analyze_url
UExtract ==
    /\ u_pc = "call"
    /\ u_pc' = "done"
    /\ u_result' = ExtractPostId(u_url, platform)
    /\ UNCHANGED << u_url, u_form, u_id, ig_vars, tt_vars, w_vars, s_vars, f_vars, l_vars,
                    platform >>

----------------------------------------------------------------------------
(* app.py: analyze_url and api_scrape_and_analyze *)

\* a response: status code and the 'error' of its JSON body ("" for none)
Resp(code, error) == [code |-> code, error |-> error]
NoResp == Resp(0, "")

\* ---- the requests the model sends

\* platform tags of the form
FormTags == { "instagram", "tiktok", "TikTok", "facebook", "" }
\* platform tags of the JSON body posted to the api
ApiTags == { "TikTok", "Instagram", "facebook", "" }
\* session ids of the JSON body ("" for a missing one)
ApiSids == { "s1", "" }

\* str.lower of a platform tag
LowerTag(tag) ==
    CASE tag = "TikTok" -> "tiktok"
      [] tag = "Instagram" -> "instagram"
      [] OTHER -> tag

\* leading and trailing blanks
RECURSIVE LStrip(_)
LStrip(s) == IF s # << >> /\ Head(s) = " " THEN LStrip(Tail(s)) ELSE s
RECURSIVE RStrip(_)
RStrip(s) ==
    IF s # << >> /\ s[Len(s)] = " " THEN RStrip(SubSeq(s, 1, Len(s) - 1)) ELSE s
\* str.strip
Strip(s) == RStrip(LStrip(s))

\* the urls of the form: its form, its identifier segment, the text
WebUrl(form, id, url) == [form |-> form, id |-> id, url |-> url]
WebUrls ==
    { WebUrl("instagram", << "D", "-" >>,
             InstagramUrl(<< "h", "t", "t", "p", "s", ":", "/", "/" >>,
                          << "D", "-" >>, << "/" >>)),
      WebUrl("instagram", << "D", "-" >>,
             << " " >> \o InstagramUrl(<< "h", "t", "t", "p", "s", ":", "/", "/" >>,
                                       << "D", "-" >>, << "/" >>) \o << " " >>),
      WebUrl("tiktok", << "7", "0" >>,
             TikTokUrl(<< "h", "t", "t", "p", "s", ":", "/", "/" >>, << "u" >>,
                       << "7", "0" >>, << >>)),
      WebUrl("other", << >>,
             << "h", "t", "t", "p", "s", ":", "/", "/", "x", ".", "c", "o", "m", "/" >>),
      WebUrl("other", << >>, IGLiteral),
      WebUrl("other", << >>, << " ", " " >>),
      WebUrl("other", << >>, << >>) }
\* the url and the post_id of the JSON body posted to the api by a client of
\* its own (None for a missing key)
ApiUrls == { None, << >>, << "x" >> }
ApiPostIds == { None, << >>, << "7" >> }

\* ---- the code

\* bool(v) of a text or None
Truthy(v) == v # None /\ v # << >>

\* all([session_id, platform, post_id, url])
AllParams(session_id, tag, post_id, url) ==
    session_id # "" /\ tag # "" /\ Truthy(post_id) /\ Truthy(url)

\* the scraper api_scrape_and_analyze takes for a platform tag
ScraperForAny(tag) == IF tag = "tiktok" THEN "tiktok" ELSE "instagram"

ScraperFor(tag) ==
    IF tag = "instagram" THEN "instagram"
    ELSE IF tag = "tiktok" THEN "tiktok"
    ELSE "none"

\* the calls after the scrape that may raise, and what str(e) then is
PostScrapeFailures == { "none", "to_csv", "analyze_dataframe", "results_to_csv" }
FailureText(fail) ==
    CASE fail = "to_csv" -> "OSError: scraped csv"
      [] fail = "analyze_dataframe" -> "analyze_dataframe failed"
      [] fail = "results_to_csv" -> "OSError: results csv"

\* the response is sent and nothing else happens
WebAnswer(resp) ==
    /\ w_pc' = "answered"
    /\ w_resp' = resp
    /\ UNCHANGED << w_sid, w_files, w_classified, w_session, w_via >>

\* analyze_url, whole: the form is read, the identifier extracted, and the
\* request rejected or redirected to the progress page, whose script posts
\* session id, platform, post_id and url to the api
AnalyzeUrl ==
    /\ w_pc = "form"
    /\ LET url == Strip(u_url)
           tag == LowerTag(platform)
           post_id == ExtractPostId(url, tag)
       IN  /\ u_url' = url
           /\ platform' = tag
           /\ IF ~Truthy(url)
              THEN /\ WebAnswer(Resp(400, "No URL provided"))
                   /\ UNCHANGED << u_pc, u_result >>
              ELSE /\ u_pc' = "done"
                   /\ u_result' = post_id
                   /\ IF ~Truthy(post_id)
                      THEN WebAnswer(Resp(400, "Invalid URL format"))
                      ELSE /\ w_pc' = "api"
                           /\ w_sid' = "s1"
                           /\ w_resp' = Resp(302, "")
                           /\ UNCHANGED << w_files, w_classified, w_session, w_via >>
    /\ UNCHANGED << u_form, u_id, ig_vars, tt_vars, s_vars, f_vars, l_vars >>

\* api_scrape_and_analyze up to the call of scrape_comments
ApiScrape ==
    /\ w_pc = "api"
    /\ IF ~AllParams(w_sid, platform, u_result, u_url)
       THEN WebAnswer(Resp(400, "Missing required parameters"))
       ELSE IF ScraperFor(platform) = "none"
       THEN WebAnswer(Resp(400, "Unsupported platform"))
       ELSE /\ w_pc' = "scraping"
            /\ w_resp' = NoResp
            /\ UNCHANGED << w_sid, w_files, w_classified, w_session, w_via >>
    /\ UNCHANGED << u_vars, ig_vars, tt_vars, s_vars, f_vars, l_vars, platform >>

\* what scrape_comments returned, once it has
ScrapeReturned ==
    \/ platform = "instagram" /\ ig_pc = "done"
    \/ platform = "tiktok" /\ tt_pc = "done"
ScrapeRaised ==
    \/ platform = "instagram" /\ ig_pc = "crashed"
    \/ platform = "tiktok" /\ tt_pc = "crashed"
CommentsData == IF platform = "instagram" THEN ig_result ELSE tt_result

\* if not comments_data
NoCommentsNever(comments_data) == FALSE

NoComments(comments_data) == comments_data = << >>

\* api_scrape_and_analyze from the return of scrape_comments on
ApiAnswer ==
    /\ w_pc = "scraping"
    /\ w_pc' = "answered"
    /\ \/ /\ ScrapeRaised
          /\ w_resp' = Resp(500, "scrape_comments raised")
          /\ UNCHANGED << w_files, w_classified, w_session >>
       \/ /\ ScrapeReturned
          /\ NoComments(CommentsData)
          /\ w_resp' = Resp(400, "No comments found or scraping failed")
          /\ UNCHANGED << w_files, w_classified, w_session >>
       \/ /\ ScrapeReturned
          /\ ~NoComments(CommentsData)
          /\ \E fail \in PostScrapeFailures :
                /\ w_files' = CASE fail = "to_csv" -> w_files
                                [] fail = "none" -> w_files \cup { "scraped_data", "analysis_results" }
                                [] OTHER -> w_files \cup { "scraped_data" }
                /\ w_classified' = (fail # "to_csv")
                /\ w_session' = (fail = "none")
                /\ w_resp' = IF fail = "none" THEN Resp(200, "")
                             ELSE Resp(500, FailureText(fail))
    /\ UNCHANGED << w_sid, w_via, u_vars, ig_vars, tt_vars, s_vars, f_vars, l_vars, platform >>

\* no request at all
WebIdle ==
    /\ w_sid = ""
    /\ w_resp = NoResp
    /\ w_files = {}
    /\ w_classified = FALSE
    /\ w_session = FALSE

----------------------------------------------------------------------------
(* sentiment_analyzer.py: analyze_single_text; utils.py: clean_text *)

\* ---- Python values passed as text
Str(chars) == [kind |-> "str", val |-> chars]
PyNone == [kind |-> "None", val |-> << >>]
PyInt(n) == [kind |-> "int", val |-> n]
PyList(l) == [kind |-> "list", val |-> l]

\* bool(v)
PyTruthy(v) ==
    CASE v.kind = "str" -> v.val # << >>
      [] v.kind = "None" -> FALSE
      [] v.kind = "int" -> v.val # 0
      [] v.kind = "list" -> v.val # << >>
\* isinstance(v, str)
IsStr(v) == v.kind = "str"

\* ---- clean_text

\* \s
Whitespace == { " ", "\n", "\t" }
\* the characters the URL pattern goes on with after '://'
UrlChars == { "a", "h", "t", "p", "s", ":", "/", ".", "x", "I", "!" }
HttpLiteral == << "h", "t", "t", "p" >>
ColonSlashes == << ":", "/", "/" >>

\* text.strip()
RECURSIVE WsLStrip(_)
WsLStrip(s) == IF s # << >> /\ Head(s) \in Whitespace THEN WsLStrip(Tail(s)) ELSE s
RECURSIVE WsRStrip(_)
WsRStrip(s) ==
    IF s # << >> /\ s[Len(s)] \in Whitespace
    THEN WsRStrip(SubSeq(s, 1, Len(s) - 1)) ELSE s
WsStrip(s) == WsRStrip(WsLStrip(s))

\* re.sub(r'\s+', ' ', s)
RECURSIVE CollapseWs(_)
CollapseWs(s) ==
    IF s = << >> THEN << >>
    ELSE IF Head(s) \in Whitespace
    THEN << " " >> \o CollapseWs(WsLStrip(s))
    ELSE << Head(s) >> \o CollapseWs(Tail(s))

\* the end of a match of http[s]?://(...)+ starting at i, 0 when there is none
UrlMatchEnd(s, i) ==
    IF ~MatchLit(s, i, HttpLiteral) THEN 0
    ELSE LET j == i + Len(HttpLiteral)
             k == IF j <= Len(s) /\ s[j] = "s" /\ MatchLit(s, j + 1, ColonSlashes)
                  THEN j + 1 ELSE j
         IN  IF ~MatchLit(s, k, ColonSlashes) THEN 0
             ELSE LET b == k + Len(ColonSlashes)
                      e == RunEnd(s, b, UrlChars)
                  IN  IF e > b THEN e ELSE 0

\* re.sub(url pattern, '', s): every match, left to right, is taken out
RECURSIVE RemoveUrlsFrom(_, _)
RemoveUrlsFrom(s, i) ==
    IF i > Len(s) THEN << >>
    ELSE IF UrlMatchEnd(s, i) > 0 THEN RemoveUrlsFrom(s, UrlMatchEnd(s, i))
    ELSE << s[i] >> \o RemoveUrlsFrom(s, i + 1)
RemoveUrls(s) == RemoveUrlsFrom(s, 1)

\* clean_text(text) of a str
CleanText(chars) == WsStrip(RemoveUrls(CollapseWs(WsStrip(chars))))

\* ---- the classifier

\* sentiment_score is held in units of 0.0001, a score of the classifier in
\* halves of that unit
ScoreOne == 10000
Halves == 2 * ScoreOne

\* round(score, 4): to the nearest unit; a score halfway between two units
\* goes to either, the float nearest to it lying on one side or the other
Round4(h) == IF h % 2 = 0 THEN { h \div 2 } ELSE { h \div 2, h \div 2 + 1 }

\* the label names models of the pipeline give their classes
LabelNames ==
    { << "LABEL_0", "LABEL_1", "LABEL_2" >>,
      << "positive", "neutral", "negative" >>,
      << "NEGATIVE", "NEUTRAL", "POSITIVE" >>,
      << "Positive", "Neutral", "Negative" >> }
\* the scores of three classes, in halves of a unit
ScoreTriples ==
    { << Halves, 0, 0 >>, << 0, 0, Halves >>, << Halves - 1, 1, 0 >>,
      << 1, Halves - 2, 1 >>, << ScoreOne, ScoreOne, 0 >>,
      << 6667, 6667, 6666 >>, << 3, 13331, 6666 >> }

\* label.upper(), label.lower()
UpperLabel(label) ==
    CASE label \in { "positive", "Positive" } -> "POSITIVE"
      [] label \in { "neutral", "Neutral" } -> "NEUTRAL"
      [] label \in { "negative", "Negative" } -> "NEGATIVE"
      [] OTHER -> label
LowerLabel(label) ==
    CASE label \in { "POSITIVE", "Positive" } -> "positive"
      [] label \in { "NEUTRAL", "Neutral" } -> "neutral"
      [] label \in { "NEGATIVE", "Negative" } -> "negative"
      [] label = "LABEL_0" -> "label_0"
      [] label = "LABEL_1" -> "label_1"
      [] label = "LABEL_2" -> "label_2"
      [] OTHER -> label

MapLabelRaw(label) == label

\* _map_label
MapLabel(label) ==
    CASE UpperLabel(label) \in { "LABEL_0", "NEGATIVE" } -> "negative"
      [] UpperLabel(label) \in { "LABEL_1", "NEUTRAL" } -> "neutral"
      [] UpperLabel(label) \in { "LABEL_2", "POSITIVE" } -> "positive"
      [] OTHER -> LowerLabel(label)

\* what a call of self.classifier gives: an exception, or results
Classified(kind, results) == [kind |-> kind, results |-> results]
ClassifierOutcomes ==
    { Classified("raises", << >>), Classified("ok", << >>),
      Classified("ok", << << >> >>) }
    \cup { Classified("ok", << [i \in 1..3 |-> [label |-> n[i], score |-> t[i]]] >>) :
            n \in LabelNames, t \in ScoreTriples }

\* max(results[0], key=score): the first of the highest
RECURSIVE MaxFrom(_, _, _)
MaxFrom(list, i, best) ==
    IF i > Len(list) THEN best
    ELSE MaxFrom(list, i + 1, IF list[i].score > list[best].score THEN i ELSE best)
BestResult(list) == list[MaxFrom(list, 2, 1)]

\* the exception of results[0] and of max(...), "none" when there is none
BestExc(cls) ==
    IF cls.kind = "raises" THEN "RuntimeError"
    ELSE IF cls.results = << >> THEN "IndexError"
    ELSE IF cls.results[1] = << >> THEN "ValueError"
    ELSE "none"

\* the records analyze_single_text returns
Fallback(error) ==
    [sentiment_label |-> "neutral", sentiment_score |-> 0, error |-> error]
Scored(label, score) ==
    [sentiment_label |-> label, sentiment_score |-> score, error |-> "none"]

\* analyze_single_text(text), the classifier doing cls when called
AnalyzeSingleText(text, cls) ==
    IF ~PyTruthy(text) \/ ~IsStr(text) THEN { Fallback("Invalid text input") }
    ELSE IF CleanText(text.val) = << >> THEN { Fallback("Empty text after cleaning") }
    ELSE IF BestExc(cls) # "none" THEN { Fallback(BestExc(cls)) }
    ELSE LET best == BestResult(cls.results[1])
         IN  { Scored(MapLabel(best.label), r) : r \in Round4(best.score) }

\* the texts of the model
Texts ==
    { Str(<< "I", " ", "a", "!" >>), Str(<< >>), Str(<< " ", "\n", "\t" >>),
      Str(<< "h", "t", "t", "p", "s", ":", "/", "/", "x", ".", "a" >>),
      Str(<< " ", "h", "t", "t", "p", ":", "/", "/", "x", "\n" >>),
      Str(<< "a", " ", " ", "h", "t", "t", "p", ":", "/", "/", "x", " ", "x" >>),
      Str(<< "h", "t", "t", "p", ":", "/", "/" >>),
      PyNone, PyInt(0), PyInt(5), PyList(<< >>), PyList(<< "a" >>) }

SIdle ==
    /\ s_pc = "idle"
    /\ s_text = PyNone
    /\ s_cls = Classified("raises", << >>)
    /\ s_result = Fallback("none")

SInit ==
    /\ s_pc = "call"
    /\ s_text \in Texts
    /\ s_cls \in ClassifierOutcomes
    /\ s_result = Fallback("none")

SAnalyze ==
    /\ s_pc = "call"
    /\ s_pc' = "done"
    /\ s_result' \in AnalyzeSingleText(s_text, s_cls)
    /\ UNCHANGED << s_text, s_cls, ig_vars, tt_vars, u_vars, w_vars, f_vars, l_vars, platform >>

----------------------------------------------------------------------------
(* utils.py: allowed_file *)

\* longest filename of the model, the named ones apart
MaxNameLen == 4

\* '.' in filename
HasDot(name) == \E i \in DOMAIN name : name[i] = "."

\* filename.rsplit('.', 1)[1]: what follows the last dot
RSplitLast(name) ==
    LET last == CHOOSE i \in DOMAIN name :
                    name[i] = "." /\ \A j \in DOMAIN name : name[j] = "." => j <= i
    IN  SubSeq(name, last + 1, Len(name))

LowerCharSame(c) == c

\* str.lower, character by character
LowerChar(c) ==
    CASE c = "C" -> "c"
      [] c = "S" -> "s"
      [] c = "V" -> "v"
      [] OTHER -> c
LowerName(name) == [i \in DOMAIN name |-> LowerChar(name[i])]

AllowedExtensions == { << "c", "s", "v" >> }

\* allowed_file(filename)
AllowedFile(name) == HasDot(name) /\ LowerName(RSplitLast(name)) \in AllowedExtensions

\* the filenames of the model
NameChars == { "t", ".", "c", "s", "v", "C", "V" }
TestCsv == << "t", "e", "s", "t", ".", "c", "s", "v" >>
TestTxt == << "t", "e", "s", "t", ".", "t", "x", "t" >>
FileNames ==
    UNION { [1..n -> NameChars] : n \in 0..MaxNameLen }
    \cup { TestCsv, TestTxt, << "t", "e", "s", "t" >>,
           << "a", ".", "c", "s", "v", ".", "t", "x", "t" >>,
           << "a", ".", "t", "x", "t", ".", "C", "s", "V" >> }

FIdle ==
    /\ f_pc = "idle"
    /\ f_name = << >>
    /\ f_result = FALSE

FInit ==
    /\ f_pc = "call"
    /\ f_name \in FileNames
    /\ f_result = FALSE

FAllowed ==
    /\ f_pc = "call"
    /\ f_pc' = "done"
    /\ f_result' = AllowedFile(f_name)
    /\ UNCHANGED << f_name, ig_vars, tt_vars, u_vars, w_vars, s_vars, l_vars, platform >>

----------------------------------------------------------------------------
(* app.py: scraping_logs, ScrapingLogHandler and the log plumbing *)

\* calls of emit made in one run of the handler
MaxEmits == 3

\* `if len(scraping_logs[self.session_id]) > 100`, `[-100:]`
LogCap == 100

\* session ids of requests, and the threads that may run in parallel
Sessions == { "s1", "s2" }
Threads == { 1, 2 }

\* the stdlib loggers api_scrape_and_analyze hands its handler to
ScrapersLogger == "scrapers"
TikTokLogger == "scrapers.tiktok_scraper_module"
InstagramLogger == "scrapers.instagram_scraper_module"
LoggerNames == { ScrapersLogger, TikTokLogger, InstagramLogger }

\* a message: the session whose scrape produced it, and its number
Message(by, n) == [by |-> by, n |-> n]

\* a log record: the name of its logger, the kind of text getMessage()
\* gives ("progress": 'user - text'; "plain": no ' - '; "marked": ' - ' with
\* one of Starting, the check mark, Successfully, Error; "unformattable":
\* getMessage() raises) and the message
LogRecord(name, text, msg) == [name |-> name, text |-> text, msg |-> msg]
RecordTexts == { "progress", "plain", "marked", "unformattable" }

\* 'scrapers.' in record.name
NameHasScrapersDot(name) == name \in { TikTokLogger, InstagramLogger }
\* record.getMessage()
GetMessageExc(text) == IF text = "unformattable" THEN "TypeError" ELSE "none"
\* ' - ' in message
HasDash(text) == text \in { "progress", "marked" }
\* any(x in message for x in ['Starting', ..., 'Error'])
HasMarker(text) == text = "marked"

\* the tests of emit: the record is appended when they pass; an exception
\* is swallowed by `except Exception: pass`
Captured(rec) ==
    /\ NameHasScrapersDot(rec.name)
    /\ GetMessageExc(rec.text) = "none"
    /\ HasDash(rec.text)
    /\ ~HasMarker(rec.text)

\* the empty dict
NoLogs == << >>
\* session_id in scraping_logs; scraping_logs.get(session_id, []) and the
\* lookup of the defaultdict(list)
HasEntry(logs, sid) == sid \in DOMAIN logs
EntryOf(logs, sid) == IF HasEntry(logs, sid) THEN logs[sid] ELSE << >>

\* scraping_logs[self.session_id].append(message)
Appended(logs, sid, msg) ==
    [k \in DOMAIN logs \cup { sid } |->
        IF k = sid THEN Append(EntryOf(logs, sid), msg) ELSE logs[k]]

\* list[-n:]
LastN(list, n) ==
    IF Len(list) <= n THEN list ELSE SubSeq(list, Len(list) - n + 1, Len(list))

\* a trim that keeps the oldest LogCap messages
TrimmedOldest(logs, sid) ==
    IF Len(logs[sid]) > LogCap
    THEN [logs EXCEPT ![sid] = SubSeq(@, 1, LogCap)]
    ELSE logs

\* if len(...) > 100: scraping_logs[self.session_id] = ...[-100:]
Trimmed(logs, sid) ==
    IF Len(logs[sid]) > LogCap
    THEN [logs EXCEPT ![sid] = LastN(@, LogCap)]
    ELSE logs

\* del scraping_logs[session_id]
Deleted(logs, sid) == [k \in DOMAIN logs \ { sid } |-> logs[k]]

\* one whole call of emit of the handler of session sid
EmitInto(logs, sid, rec) ==
    IF Captured(rec) THEN Trimmed(Appended(logs, sid, rec.msg), sid) ELSE logs

\* no call of emit in progress
NoRecord == [sid |-> "", rec |-> LogRecord("", "plain", Message("", 0))]

\* the records call number k of emit may be handed
EmitRecords(k) ==
    { LogRecord(name, text, Message(by, LogCap + k)) :
        name \in { TikTokLogger, ScrapersLogger, "werkzeug" },
        text \in RecordTexts,
        by \in Sessions }

\* emit(record) of the handler of some session, called in thread t, up to
\* `with scraping_logs_lock`
EmitCall(t) ==
    /\ l_epc[t] = "idle"
    /\ l_calls < MaxEmits
    /\ l_calls' = l_calls + 1
    /\ \E sid \in Sessions, rec \in EmitRecords(l_calls + 1) :
          IF Captured(rec)
          THEN /\ l_epc' = [l_epc EXCEPT ![t] = "wait"]
               /\ l_erec' = [l_erec EXCEPT ![t] = [sid |-> sid, rec |-> rec]]
          ELSE UNCHANGED << l_epc, l_erec >>
    /\ UNCHANGED << scraping_logs, l_lock, l_pc, l_tag, l_handlers, l_made, l_out,
                    l_hist >>
    /\ UNCHANGED << ig_vars, tt_vars, u_vars, w_vars, s_vars, f_vars, platform >>

\* the lock is taken
EmitAcquire(t) ==
    /\ l_epc[t] = "wait"
    /\ l_lock = 0
    /\ l_lock' = t
    /\ l_epc' = [l_epc EXCEPT ![t] = "append"]
    /\ UNCHANGED << scraping_logs, l_erec, l_calls, l_pc, l_tag, l_handlers, l_made,
                    l_out, l_hist >>
    /\ UNCHANGED << ig_vars, tt_vars, u_vars, w_vars, s_vars, f_vars, platform >>

\* the message is appended
EmitAppend(t) ==
    /\ l_epc[t] = "append"
    /\ scraping_logs' = Appended(scraping_logs, l_erec[t].sid, l_erec[t].rec.msg)
    /\ l_hist' = [l_hist EXCEPT ![l_erec[t].sid] = Append(@, l_erec[t].rec.msg)]
    /\ l_epc' = [l_epc EXCEPT ![t] = "trim"]
    /\ UNCHANGED << l_lock, l_erec, l_calls, l_pc, l_tag, l_handlers, l_made, l_out >>
    /\ UNCHANGED << ig_vars, tt_vars, u_vars, w_vars, s_vars, f_vars, platform >>

\* the list is cut to its last LogCap messages and the lock released
EmitTrim(t) ==
    /\ l_epc[t] = "trim"
    /\ scraping_logs' = Trimmed(scraping_logs, l_erec[t].sid)
    /\ l_lock' = 0
    /\ l_epc' = [l_epc EXCEPT ![t] = "idle"]
    /\ l_erec' = [l_erec EXCEPT ![t] = NoRecord]
    /\ UNCHANGED << l_calls, l_pc, l_tag, l_handlers, l_made, l_out, l_hist >>
    /\ UNCHANGED << ig_vars, tt_vars, u_vars, w_vars, s_vars, f_vars, platform >>

\* progress messages the scrape of one request logs
MaxMsgs == 2

\* the logger of the module of a scraper, were it a stdlib logger
ModuleLogger(scraper) == IF scraper = "tiktok" THEN TikTokLogger ELSE InstagramLogger

\* what the scrapers log: TikTok the preview of each comment ('user - text')
\* and messages with Starting, the check mark or Error; Instagram the page
\* fetches ('Fetching ...') and messages with Successfully or Error, no
\* message for a comment
ScraperTexts(scraper) ==
    IF scraper = "tiktok" THEN { "progress", "marked" } ELSE { "plain", "marked" }

\* scraper modules that log through logging.getLogger(__name__)
LoguruReachesStdlib(module) == << module >>

\* the stdlib loggers on which a record logged by a scraper module arrives.
\* Both modules log through `from loguru import logger`: loguru hands the
\* record to its own sinks and to no stdlib logger, and nothing in the
\* application adds a sink that forwards to logging.
LoguruReaches(module) == << >>

\* Logger.callHandlers: the loggers whose handlers see a record logged on
\* name, the logger itself and then its parent
HandlingLoggers(name) ==
    IF name = ScrapersLogger THEN << name >> ELSE << name, ScrapersLogger >>

\* how often emit of the handler of session sid is called for a record that
\* arrives on the stdlib loggers names
CallsOf(sid, names, handlers) ==
    Cardinality({ p \in (DOMAIN names) \X (1..2) :
                    /\ p[2] \in DOMAIN HandlingLoggers(names[p[1]])
                    /\ sid \in handlers[HandlingLoggers(names[p[1]])[p[2]]] })

\* n calls of emit of the handler of sid on the same record
RECURSIVE EmitTimes(_, _, _, _)
EmitTimes(logs, sid, rec, n) ==
    IF n = 0 THEN logs ELSE EmitTimes(EmitInto(logs, sid, rec), sid, rec, n - 1)

\* the dict after every handler that sees the record has run emit
Delivered(logs, rec, names, handlers) ==
    LET after(sid) == EmitTimes(logs, sid, rec, CallsOf(sid, names, handlers))
    IN  [k \in UNION { DOMAIN after(sid) : sid \in Sessions } |-> after(k)[k]]

\* the history after the same calls
RECURSIVE AppendTimes(_, _, _)
AppendTimes(list, msg, n) ==
    IF n = 0 THEN list ELSE AppendTimes(Append(list, msg), msg, n - 1)

\* platform tags of the requests
LogTags == { "tiktok", "instagram", "facebook" }

\* the addHandler calls and the removeHandler calls, in the order of the code
AddSteps == << "add_scrapers", "add_tiktok", "add_instagram" >>
RemoveSteps == << "remove_scrapers", "remove_tiktok", "remove_instagram" >>
StepLogger(i) == << ScrapersLogger, TikTokLogger, InstagramLogger >>[i]
StepIndex(steps, pc) == CHOOSE i \in DOMAIN steps : steps[i] = pc

\* a removeHandler that leaves the handler where it is
WithoutHandlerKept(handlers, name, sid) == handlers

\* logger.addHandler(log_handler), logger.removeHandler(log_handler)
WithHandler(handlers, name, sid) == [handlers EXCEPT ![name] = @ \cup { sid }]
WithoutHandler(handlers, name, sid) == [handlers EXCEPT ![name] = @ \ { sid }]

\* the frame of the request actions
LogFrame ==
    /\ UNCHANGED << l_lock, l_epc, l_erec, l_calls >>
    /\ UNCHANGED << ig_vars, tt_vars, u_vars, w_vars, s_vars, f_vars, platform >>

\* api_scrape_and_analyze of the request with session id sid, up to the
\* first addHandler: the JSON body is read and checked
LogBegin(sid) ==
    /\ l_pc[sid] = "idle"
    /\ \E tag \in LogTags \cup { "" }, post_id \in ApiPostIds, url \in ApiUrls :
          IF ~AllParams(sid, tag, post_id, url)
          THEN /\ l_pc' = [l_pc EXCEPT ![sid] = "returned"]
               /\ l_out' = [l_out EXCEPT ![sid] = Resp(400, "Missing required parameters")]
               /\ UNCHANGED l_tag
          ELSE /\ l_pc' = [l_pc EXCEPT ![sid] = AddSteps[1]]
               /\ l_tag' = [l_tag EXCEPT ![sid] = tag]
               /\ UNCHANGED l_out
    /\ UNCHANGED << scraping_logs, l_handlers, l_made, l_hist >>
    /\ LogFrame

\* one of the three addHandler calls; after the last the try block is
\* entered
LogAddHandler(sid) ==
    /\ l_pc[sid] \in Elems(AddSteps)
    /\ LET i == StepIndex(AddSteps, l_pc[sid])
       IN  /\ l_handlers' = WithHandler(l_handlers, StepLogger(i), sid)
           /\ l_pc' = [l_pc EXCEPT ![sid] = IF i < Len(AddSteps) THEN AddSteps[i + 1]
                                            ELSE "try"]
    /\ UNCHANGED << scraping_logs, l_tag, l_made, l_out, l_hist >>
    /\ LogFrame

\* the try block: the scraper is chosen and scrape_comments called, or the
\* platform is not supported and the function returns through finally
LogScrape(sid) ==
    /\ l_pc[sid] = "try"
    /\ IF ScraperFor(l_tag[sid]) = "none"
       THEN /\ l_pc' = [l_pc EXCEPT ![sid] = RemoveSteps[1]]
            /\ l_out' = [l_out EXCEPT ![sid] = Resp(400, "Unsupported platform")]
       ELSE /\ l_pc' = [l_pc EXCEPT ![sid] = "scraping"]
            /\ UNCHANGED l_out
    /\ UNCHANGED << scraping_logs, l_tag, l_handlers, l_made, l_hist >>
    /\ LogFrame

\* the scrape of the request logs one message; the handlers that see the
\* record run emit, in the thread of the scrape
ScraperLog(sid) ==
    /\ l_pc[sid] = "scraping"
    /\ l_made[sid] < MaxMsgs
    /\ l_lock = 0
    /\ l_made' = [l_made EXCEPT ![sid] = @ + 1]
    /\ \E text \in ScraperTexts(ScraperFor(l_tag[sid])) :
          LET module == ModuleLogger(ScraperFor(l_tag[sid]))
              rec == LogRecord(module, text, Message(sid, l_made[sid] + 1))
              names == LoguruReaches(module)
          IN  /\ scraping_logs' = Delivered(scraping_logs, rec, names, l_handlers)
              /\ l_hist' = [s \in Sessions |->
                               IF Captured(rec)
                               THEN AppendTimes(l_hist[s], rec.msg,
                                                CallsOf(s, names, l_handlers))
                               ELSE l_hist[s]]
    /\ UNCHANGED << l_pc, l_tag, l_handlers, l_out >>
    /\ LogFrame

\* scrape_comments returns: no comments, or some
LogScrapeEnd(sid) ==
    /\ l_pc[sid] = "scraping"
    /\ l_pc' = [l_pc EXCEPT ![sid] = RemoveSteps[1]]
    /\ \E empty \in BOOLEAN :
          l_out' = [l_out EXCEPT ![sid] =
                        IF empty THEN Resp(400, "No comments found or scraping failed")
                        ELSE NoResp]
    /\ UNCHANGED << scraping_logs, l_tag, l_handlers, l_made, l_hist >>
    /\ LogFrame

\* finally: one of the three removeHandler calls
LogRemoveHandler(sid) ==
    /\ l_pc[sid] \in Elems(RemoveSteps)
    /\ LET i == StepIndex(RemoveSteps, l_pc[sid])
       IN  /\ l_handlers' = WithoutHandler(l_handlers, StepLogger(i), sid)
           /\ l_pc' = [l_pc EXCEPT ![sid] = IF i < Len(RemoveSteps) THEN RemoveSteps[i + 1]
                                            ELSE "after"]
    /\ UNCHANGED << scraping_logs, l_tag, l_made, l_out, l_hist >>
    /\ LogFrame

\* after finally: the pending return of the try block or the answer for an
\* empty result; else the csv files and the analysis, which may raise (500),
\* and on success the captured logs are read and the entry of the session
\* deleted, under the lock
LogAnswer(sid) ==
    /\ l_pc[sid] = "after"
    /\ l_pc' = [l_pc EXCEPT ![sid] = "returned"]
    /\ IF l_out[sid] # NoResp
       THEN UNCHANGED << scraping_logs, l_out >>
       ELSE \E fail \in PostScrapeFailures :
               IF fail # "none"
               THEN /\ l_out' = [l_out EXCEPT ![sid] = Resp(500, FailureText(fail))]
                    /\ UNCHANGED scraping_logs
               ELSE /\ l_lock = 0
                    /\ l_out' = [l_out EXCEPT ![sid] = Resp(200, "")]
                    /\ scraping_logs' = IF HasEntry(scraping_logs, sid)
                                        THEN Deleted(scraping_logs, sid)
                                        ELSE scraping_logs
    /\ UNCHANGED << l_tag, l_handlers, l_made, l_hist >>
    /\ LogFrame

\* the handlers and requests at rest, whatever the dict holds
LRest ==
    /\ l_lock = 0
    /\ l_epc = [t \in Threads |-> "idle"]
    /\ l_erec = [t \in Threads |-> NoRecord]
    /\ l_calls = 0
    /\ l_pc = [s \in Sessions |-> "idle"]
    /\ l_tag = [s \in Sessions |-> ""]
    /\ l_handlers = [n \in LoggerNames |-> {}]
    /\ l_made = [s \in Sessions |-> 0]
    /\ l_out = [s \in Sessions |-> NoResp]

\* no request, no call of emit, nothing captured
LIdle ==
    /\ LRest
    /\ scraping_logs = NoLogs
    /\ l_hist = [s \in Sessions |-> << >>]

----------------------------------------------------------------------------
(* Specifications *)

\* api_scrape_and_analyze hands the post to the scraper of its platform
Init ==
    /\ platform \in { "instagram", "tiktok" }
    /\ IGInit
    /\ TTInit
    /\ w_pc = "scraping"
    /\ w_via = "direct"
    /\ WebIdle
    /\ SIdle
    /\ FIdle
    /\ LIdle
    /\ u_pc = "done"
    /\ u_url = << >>
    /\ u_result = None
    /\ u_form = "other"
    /\ u_id = << >>

Next ==
    \/ IGScrape
    \/ IGTopFetch
    \/ IGTopSleep
    \/ IGRepFetch
    \/ IGRepSleep
    \/ TTScrape
    \/ TTTopFetch
    \/ TTRepFetch

\* one scrape, of either platform, against an arbitrary platform server
Spec == Init /\ [][Next]_vars

\* the same, the scrape being a running thread that is never starved
FairSpec == Spec /\ WF_vars(Next)

\* one call of extract_post_id, on a url of one of the forms above and with
\* any platform tag
UrlInit ==
    /\ platform \in { "instagram", "tiktok", "facebook", "" }
    /\ IGInit
    /\ TTInit
    /\ UInit
    /\ w_pc = "answered"
    /\ w_via = "direct"
    /\ WebIdle
    /\ SIdle
    /\ FIdle
    /\ LIdle

UrlNext == UExtract

SpecUrl == UrlInit /\ [][UrlNext]_vars

\* one request to the web layer: a form sent to analyze_url, or a JSON body
\* posted to api_scrape_and_analyze by a client of its own
WebInit ==
    /\ IGInit
    /\ TTInit
    /\ SIdle
    /\ FIdle
    /\ LIdle
    /\ w_resp = NoResp
    /\ w_files = {}
    /\ w_classified = FALSE
    /\ w_session = FALSE
    /\ \/ /\ w_pc = "form"
          /\ w_via = "form"
          /\ w_sid = ""
          /\ platform \in FormTags
          /\ u_pc = "call"
          /\ u_result = None
          /\ \E w \in WebUrls : u_form = w.form /\ u_id = w.id /\ u_url = w.url
       \/ /\ w_pc = "api"
          /\ w_via = "direct"
          /\ w_sid \in ApiSids
          /\ platform \in ApiTags
          /\ u_pc = "done"
          /\ u_result \in ApiPostIds
          /\ u_url \in ApiUrls
          /\ u_form = "other"
          /\ u_id = << >>

WebNext ==
    \/ AnalyzeUrl
    \/ ApiScrape
    \/ IGScrape
    \/ IGTopFetch
    \/ IGTopSleep
    \/ IGRepFetch
    \/ IGRepSleep
    \/ TTScrape
    \/ TTTopFetch
    \/ TTRepFetch
    \/ ApiAnswer

SpecWeb == WebInit /\ [][WebNext]_vars

\* one Instagram scrape against a platform that serves well-formed pages
\* only, with any has_next_page and end_cursor, the history of its walks kept
IGInitHist == IGStart /\ ig_hist = TRUE /\ ig_budget = 0

WalkInit ==
    /\ platform = "instagram"
    /\ IGInitHist
    /\ TTInit
    /\ w_pc = "scraping"
    /\ w_via = "direct"
    /\ WebIdle
    /\ SIdle
    /\ FIdle
    /\ LIdle
    /\ u_pc = "done"
    /\ u_url = << >>
    /\ u_result = None
    /\ u_form = "other"
    /\ u_id = << >>

WalkNext ==
    \/ IGScrape
    \/ IGTopFetch
    \/ IGTopSleep
    \/ IGRepFetch
    \/ IGRepSleep

SpecWalk == WalkInit /\ [][WalkNext]_vars

\* no scrape, no request and no url
Quiet ==
    /\ platform = ""
    /\ IGInit
    /\ TTInit
    /\ w_pc = "answered"
    /\ w_via = "direct"
    /\ WebIdle
    /\ u_pc = "done"
    /\ u_url = << >>
    /\ u_result = None
    /\ u_form = "other"
    /\ u_id = << >>

\* one call of analyze_single_text, on any text of the model and with any
\* behaviour of the classifier
SentInit == Quiet /\ SInit /\ FIdle /\ LIdle
SentNext == SAnalyze
SpecSent == SentInit /\ [][SentNext]_vars

\* the list of session s1 as earlier calls of emit left it: n messages
Prefill(n) == [i \in 1..n |-> Message("s1", i)]
\* how many: none (no entry), and lists one short of the cap and at the cap
BufferFills == { 0, LogCap - 1, LogCap }

\* calls of emit of the handlers, from two threads, on records of any logger
\* and text, starting from a list earlier calls have filled
EmitInit ==
    /\ Quiet
    /\ SIdle
    /\ FIdle
    /\ LRest
    /\ \E n \in BufferFills :
          /\ scraping_logs = IF n = 0 THEN NoLogs ELSE [k \in { "s1" } |-> Prefill(n)]
          /\ l_hist = [s \in Sessions |-> IF s = "s1" THEN Prefill(n) ELSE << >>]
EmitNext ==
    \E t \in Threads :
        \/ EmitCall(t)
        \/ EmitAcquire(t)
        \/ EmitAppend(t)
        \/ EmitTrim(t)
SpecEmit == EmitInit /\ [][EmitNext]_vars

\* two requests to api_scrape_and_analyze, with different session ids, in
\* parallel threads of the server
LogInit == Quiet /\ SIdle /\ FIdle /\ LIdle
LogNext ==
    \E sid \in Sessions :
        \/ LogBegin(sid)
        \/ LogAddHandler(sid)
        \/ LogScrape(sid)
        \/ ScraperLog(sid)
        \/ LogScrapeEnd(sid)
        \/ LogRemoveHandler(sid)
        \/ LogAnswer(sid)
SpecLog == LogInit /\ [][LogNext]_vars

\* one call of allowed_file
FileInit == Quiet /\ SIdle /\ FInit /\ LIdle
FileNext == FAllowed
SpecFile == FileInit /\ [][FileNext]_vars

----------------------------------------------------------------------------
(* Properties *)

\* where the records of a list were served
Srcs(out) == { out[i].src : i \in DOMAIN out }

\* a record of a reply, and the src of the parent it was served under
IsReply(r) == r.src[3] # 0
ParentSrc(r) == << r.src[1], r.src[2], 0, 0 >>

\* page-then-position order of two src: top-level page, position in it, reply
\* page, position in it (a parent, with 0 0, comes before its replies)
SrcLess(a, b) ==
    \E k \in 1..4 : a[k] < b[k] /\ \A j \in 1..(k - 1) : a[j] = b[j]

\* parents in page-then-position order, each followed at once by its replies,
\* these in page-then-position order
DepthFirst(out) ==
    /\ \A i \in 1..(Len(out) - 1) : SrcLess(out[i].src, out[i + 1].src)
    /\ \A i \in DOMAIN out :
          IsReply(out[i]) =>
              /\ i > 1
              /\ \/ out[i - 1].src = ParentSrc(out[i])
                 \/ IsReply(out[i - 1]) /\ ParentSrc(out[i - 1]) = ParentSrc(out[i])

\* the scrape came to its end with no exception raised on the way
IGCleanEnd == ig_pc = "done" /\ ig_fault = "none"

\* a comment tree in recursive pre-order: parent, its replies, next parent
RECURSIVE PreOrder(_)
PreOrder(list) ==
    IF list = << >> THEN << >>
    ELSE << Head(list) >> \o PreOrder(Head(list).replies) \o PreOrder(Tail(list))

\* the pages of a log up to and with the first one that reports no more
RECURSIVE UpToLast(_)
UpToLast(log) ==
    IF log = << >> THEN << >>
    ELSE IF ~TTHasMore(Head(log).has_more) THEN << Head(log) >>
    ELSE << Head(log) >> \o UpToLast(Tail(log))

\* the comment lists of pages, concatenated in page order
RECURSIVE Concat(_)
Concat(pages) ==
    IF pages = << >> THEN << >> ELSE Head(pages).comments \o Concat(Tail(pages))

\* the four values of a record
Values(r) == { r.post_id, r.username, r.created_at, r.comment_text }

\* C1: the list TikTok scrape_comments returns holds one normalized record
\* for each top-level comment and for each descendant reply of the tree
\* get_all_comments returned, in recursive pre-order.
C1_Flattened ==
    tt_pc = "done" => tt_result = TTScrapeOut(PreOrder(tt_data.comments), AwemeId)

\* C2: get_all_comments returns the concatenation, in page order, of the
\* comment lists of pages 1..N, N the first page that reports has_more false,
\* the comments of page N included.
C2_AllPages ==
    tt_pc = "done" => tt_data.comments = Concat(UpToLast(tt_pagelog))

\* C3: no value of a record that scrape_comments returns, of either scraper,
\* is null.
C3_NeverNull ==
    /\ ig_pc = "done" => \A i \in DOMAIN ig_result : NULL \notin Values(ig_result[i])
    /\ tt_pc = "done" => \A i \in DOMAIN tt_result : NULL \notin Values(tt_result[i])

\* C4: the Instagram flat output lists the top-level comments in
\* page-then-position order and puts all replies of a comment, in
\* page-then-position order, right after it and before the next top-level
\* comment; when no exception cut the scrape, every reply served is there.
C4_DepthFirstOrder ==
    /\ DepthFirst(ig_all)
    /\ ig_pc = "done" => DepthFirst(ig_result)
    /\ IGCleanEnd => Srcs(ig_result) = ig_served

\* a comment whose two replies came on two reply pages, returned in order
C4_Witness ==
    /\ IGCleanEnd
    /\ Len(ig_result) = 3
    /\ ig_result[1].src = << 1, 1, 0, 0 >>
    /\ ig_result[2].src = << 1, 1, 1, 1 >>
    /\ ig_result[3].src = << 1, 1, 2, 1 >>

\* C5: no exception leaves scrape_comments of either scraper, whatever fails
\* on whatever page; what it returns is a list.
C5_NothingEscapes ==
    /\ ig_pc # "crashed"
    /\ tt_pc # "crashed"
    /\ ig_exit # "escaped"
    /\ ig_fault # "none" => ig_pc = "done"

\* a body that is not JSON raised ValueError out of graphql_request and
\* fetch_comments; scrape_comments caught it and returned the empty list
C5_Witness ==
    /\ ig_pc = "done"
    /\ ig_exit = "raised"
    /\ ig_fault = "ValueError"
    /\ ig_last = "badjson"
    /\ ig_result = << >>

\* C6: a transport failure (request exception, non-2xx status) on a page of
\* an Instagram walk stops that walk with no exception: after a failed
\* top-level page scrape_comments returns exactly the records accumulated
\* from the pages before; after a failed reply page the reply walk is over
\* and no record of the reply pages before is lost.
C6_TransportPartial ==
    /\ ig_last = "transport" =>
          /\ ig_pc = "done"
          /\ ig_exit = "invalid_data"
          /\ ig_result = ig_all
          /\ Srcs(ig_result) = ig_served
          /\ Len(ig_result) = Cardinality(ig_served)
    /\ (ig_rlast = "transport" /\ ig_fault = "none") =>
          /\ ig_pc \notin { "crashed", "rep_sleep" }
          /\ Srcs(ig_all \o ig_replies) = ig_served
          /\ Len(ig_all \o ig_replies) = Cardinality(ig_served)

\* page 1 gave records, the request for page 2 failed, page 1 was returned
C6_Witness ==
    /\ ig_pc = "done"
    /\ ig_last = "transport"
    /\ ig_tpage = 1
    /\ Len(ig_result) = 2

\* C7: when the parsing of a page of an Instagram walk fails, scrape_comments
\* still returns the records accumulated before the failure.
C7_ParsePartial ==
    (ig_pc = "done" /\ ig_fault \in { "KeyError", "TypeError", "AttributeError" }) =>
        Srcs(ig_result) = ig_served

\* C8: every scrape comes to its end.
C8_Terminates == <>(ig_pc \in { "done", "crashed" } \/ tt_pc \in { "done", "crashed" })

\* C9: no walk of either scraper sends two page requests with no sleep
\* between them.
C9_SleepBetweenFetches ==
    /\ ig_ev # << "fetch", "fetch" >>
    /\ ig_rev # << "fetch", "fetch" >>
    /\ tt_ev # << "fetch", "fetch" >>
    /\ \A i \in DOMAIN tt_stack : tt_stack[i].ev # << "fetch", "fetch" >>

\* C10: for platform 'instagram' extract_post_id returns exactly the shortcode
\* segment that follows /p/ in an instagram.com/p/<shortcode> url, and for
\* platform 'tiktok' exactly the numeric segment that follows /video/ in a
\* tiktok.com/@<user>/video/<digits> url.
C10_ExtractPostId ==
    u_pc = "done" =>
        /\ (platform = "instagram" /\ u_form = "instagram") => u_result = u_id
        /\ (platform = "tiktok" /\ u_form = "tiktok") => u_result = u_id

\* https://www.instagram.com/p/D-/ gave D-
C10_Witness ==
    /\ u_pc = "done"
    /\ platform = "instagram"
    /\ u_url = InstagramUrl(<< "h", "t", "t", "p", "s", ":", "/", "/", "w", "w", "w", "." >>,
                            << "D", "-" >>, << "/" >>)
    /\ u_result = << "D", "-" >>

\* C11: extract_post_id returns None for every url that does not match the
\* pattern of the platform tag it is called with (a url of the other platform
\* among them), and for every tag other than 'instagram' and 'tiktok'.
C11_NoMatchIsNone ==
    u_pc = "done" =>
        /\ platform \notin { "instagram", "tiktok" } => u_result = None
        /\ u_form # platform => u_result = None

\* an instagram.com/p/ url under the tag 'tiktok' gave None
C11_Witness ==
    /\ u_pc = "done"
    /\ platform = "tiktok"
    /\ u_form = "instagram"
    /\ u_result = None

\* the request was answered by a rejection of the web layer
WebRejected ==
    /\ w_pc = "answered"
    /\ w_resp \in { Resp(400, "No URL provided"), Resp(400, "Invalid URL format"),
                    Resp(400, "Missing required parameters"),
                    Resp(400, "Unsupported platform") }
\* no scraper has been started and no page fetch issued
NoFetch ==
    /\ ig_pc = "idle" /\ ig_ev = << >> /\ ig_tpage = 0
    /\ tt_pc = "idle" /\ tt_ev = << >> /\ tt_page = 0

\* C12: a request with a platform tag other than 'instagram' and 'tiktok'
\* (after lower-casing by analyze_url), or with a url from which
\* extract_post_id gets no identifier for that tag, is answered by a rejection
\* and no scraper is started for it; a scraper is only ever started for a
\* recognized tag and, when the request came through analyze_url, for a url
\* that holds an identifier of that platform, which is the post_id scraped.
C12_InvalidInputRejected ==
    /\ WebRejected => NoFetch
    /\ (w_pc = "answered" /\ ScraperFor(platform) = "none") => WebRejected /\ NoFetch
    /\ (w_pc = "answered" /\ w_via = "form" /\ ~Truthy(u_result)) =>
            WebRejected /\ NoFetch
    /\ (w_pc = "scraping" \/ ~NoFetch) =>
            /\ platform \in { "instagram", "tiktok" }
            /\ w_via = "form" => u_form = platform /\ u_result = u_id
\* a form with a url of neither platform was rejected as 'Invalid URL format'
C12_Witness ==
    /\ w_pc = "answered"
    /\ w_via = "form"
    /\ platform = "instagram"
    /\ u_form # "instagram"
    /\ w_resp = Resp(400, "Invalid URL format")
    /\ NoFetch
\* C13: when scrape_comments has returned an empty list, whether the post
\* has no comments or the scrape failed, api_scrape_and_analyze answers 400
\* 'No comments found or scraping failed', analyze_dataframe is not called, no
\* file is written and the session stays empty; and the error of a response
\* sent after a scrape is never the exception the scrape met.
C13_EmptyScrapeOneSignal ==
    (w_pc = "answered" /\ ScrapeReturned) =>
        /\ CommentsData = << >> =>
              /\ w_resp = Resp(400, "No comments found or scraping failed")
              /\ ~w_classified
              /\ w_files = {}
              /\ ~w_session
        /\ w_resp.error # ig_fault
        /\ w_resp.error \notin { "RequestException", "JSONDecodeError", "TypeError",
                                 "AttributeError", "KeyError", "ValueError" }
\* an Instagram scrape that failed on an exception was answered by the one
\* signal
C13_Witness ==
    /\ w_pc = "answered"
    /\ platform = "instagram"
    /\ ig_pc = "done"
    /\ ig_fault # "none"
    /\ ig_result = << >>
    /\ w_resp = Resp(400, "No comments found or scraping failed")
\* C14: whatever the text (a text, the empty string, None, a number, a list,
\* a text that cleaning empties) and whatever the classifier does (scores,
\* no result, an exception), analyze_single_text returns a record with a
\* sentiment_label among positive, negative, neutral and a sentiment_score
\* from 0 to 1.
C14_LabelAndScore ==
    s_pc = "done" =>
        /\ { "sentiment_label", "sentiment_score" } \subseteq DOMAIN s_result
        /\ s_result.sentiment_label \in { "positive", "negative", "neutral" }
        /\ s_result.sentiment_score \in 0..ScoreOne
\* a text was classified by a model that names its classes LABEL_n, the best
\* class being LABEL_2
C14_Witness ==
    /\ s_pc = "done"
    /\ s_result.error = "none"
    /\ s_cls.kind = "ok"
    /\ s_cls.results[1][1].label = "LABEL_0"
    /\ s_result.sentiment_label = "positive"
    /\ s_result.sentiment_score = ScoreOne

\* the spellings of csv
CsvSpellings ==
    { << a, b, c >> : a \in { "c", "C" }, b \in { "s", "S" }, c \in { "v", "V" } }
\* C15: allowed_file accepts a filename exactly when it has a dot and the
\* text after its last dot is csv in any mix of cases; test.csv is accepted,
\* test.txt and every name without a dot are rejected.
C15_AllowedFile ==
    f_pc = "done" =>
        /\ f_result <=>
              \E i \in DOMAIN f_name :
                  /\ f_name[i] = "."
                  /\ \A j \in (i + 1)..Len(f_name) : f_name[j] # "."
                  /\ SubSeq(f_name, i + 1, Len(f_name)) \in CsvSpellings
        /\ f_name = TestCsv => f_result
        /\ f_name = TestTxt => ~f_result
        /\ (\A i \in DOMAIN f_name : f_name[i] # ".") => ~f_result
\* a name ending in .CsV after an earlier .txt was accepted
C15_Witness ==
    /\ f_pc = "done"
    /\ f_result
    /\ f_name = << "a", ".", "t", "x", "t", ".", "C", "s", "V" >>
\* every response so far, top-level and reply, was a well-formed page, and
\* the count of the walk is exact
AllWellFormed(walk) == ig_irreg = 0 /\ walk.calls < MaxCalls
\* fetch_replies is between two of its page requests
InReplyWalk == ig_pc = "rep_sleep" \/ (ig_pc = "rep_req" /\ ig_rev # << >>)

\* C16: in an Instagram walk of well-formed pages, once page k has been the
\* first to report has_next_page false the walk has issued exactly k page
\* requests and issues no other; and the walk does not end before such a
\* page.  The same for fetch_comments and for fetch_replies.
C16_WalkerCallCount ==
    /\ AllWellFormed(ig_walk) =>
          /\ ig_walk.first_false # 0 =>
                /\ ig_walk.calls = ig_walk.first_false
                /\ ig_pc \notin { "top_req", "top_sleep" }
          /\ ig_pc = "done" => ig_walk.first_false # 0
    /\ AllWellFormed(ig_rwalk) =>
          /\ ig_rwalk.first_false # 0 =>
                /\ ig_rwalk.calls = ig_rwalk.first_false
                /\ ~InReplyWalk
          /\ (ig_rwalk.calls > 0 /\ ~InReplyWalk) => ig_rwalk.first_false # 0
\* has_next_page false first on page 3: the walk is over after 3 requests
C16_Witness ==
    /\ ig_pc = "done"
    /\ ig_irreg = 0
    /\ ig_walk.first_false = 3
    /\ ig_walk.calls = 3
    /\ ig_rwalk.first_false = 2
\* C17: get_all_comments requests no top-level page after a page that
\* reported has_more false, page 1 included: every page it has got but the
\* last reported more, and so did the last when another request is under way.
C17_StopsAtNoMore ==
    /\ \A i \in 1..(Len(tt_pagelog) - 1) : TTHasMore(tt_pagelog[i].has_more)
    /\ tt_pc = "top_req" =>
          \A i \in DOMAIN tt_pagelog : TTHasMore(tt_pagelog[i].has_more)
\* C18: after a page of zero items no walk requests another page, whatever
\* the page says of has_next_page / has_more: fetch_comments is not on its
\* way to the next request after a page without edges, and get_all_comments
\* is not after a page without comments.
C18_EmptyPageStops ==
    /\ ig_pc = "top_sleep" => ig_pos > 0
    /\ tt_pc = "top_req" => \A i \in DOMAIN tt_pagelog : tt_pagelog[i].comments # << >>
\* C19: no two page requests of one walk carry the same cursor, the empty
\* cursor standing for 'from start': the cursor fetch_comments is about to
\* send is none of those its walk has sent, whatever end_cursor and
\* has_next_page the platform returned.
C19_NoCursorReuse ==
    ig_pc = "top_req" => ig_cursor \notin ig_walk.sent
\* C20: after a top-level response without the shortcode_media container
\* ({}, data null, data without the container, container null)
\* fetch_comments has stopped and scrape_comments has returned what was
\* accumulated; after a response whose container carries no comment edges
\* object the walk has ended the same way and without an exception.
C20_ContainerHandling ==
    /\ ig_last \in { "empty", "data_null", "no_container", "container_null" } =>
          /\ ig_pc = "done"
          /\ ig_result = ig_all
    /\ ig_last = "no_edge_info" =>
          /\ ig_pc = "done"
          /\ ig_result = ig_all
          /\ ig_fault = "none"

\* p is the beginning of s
IsPrefix(p, s) == Len(p) <= Len(s) /\ SubSeq(s, 1, Len(p)) = p

\* C21: when a page request of fetch_replies for a comment fails at the
\* transport level, only that reply walk is over: the replies gathered so far
\* are kept in all_comments, no exception is raised by it, and fetch_comments
\* goes on with the remaining comments of the page (each recorded, the next
\* one with replies getting its own walk) and then with the following page
\* when page_info announces one.
C21_ReplyFailureLocal ==
    [][(ig_pc = "rep_req" /\ ig_rlast' = "transport") =>
          LET used == Len(ig_edges) - Len(ig_edges')
          IN  /\ IsPrefix(ig_all \o ig_replies, ig_all')
              /\ ig_pc' # "crashed"
              /\ ig_fault' = "none" =>
                    /\ \A i \in 1..used :
                          NodeTruthy(ig_edges[i]) =>
                              << ig_tpage, ig_pos + i, 0, 0 >> \in Srcs(ig_all')
                    /\ ig_pc' = "rep_req" =>
                          used >= 1 /\ CountCheck(ig_edges[used]).go
                    /\ ig_pc' # "rep_req" =>
                          /\ ig_edges' = << >>
                          /\ ig_pc' = IF HasNextOf(ig_pinfo) THEN "top_sleep" ELSE "done"
                    /\ ig_pc' = "done" =>
                          ig_exit' = "exhausted" /\ ig_result' = ig_all']_vars

\* the second reply page of the first comment failed; its first reply is
\* kept, the second comment of the page is recorded and the next page is due
C21_Witness ==
    /\ ig_rlast = "transport"
    /\ ig_fault = "none"
    /\ ig_pc = "top_sleep"
    /\ Len(ig_all) = 3
    /\ ig_all[1].src = << 1, 1, 0, 0 >>
    /\ ig_all[2].src = << 1, 1, 1, 1 >>
    /\ ig_all[3].src = << 1, 2, 0, 0 >>

\* the elements the comment list served on page p
TTServedTop(p) == { e.src : e \in { d \in tt_served : Len(d.src) = 2 /\ d.src[1] = p } }

\* the replies of the comment at src c, at whatever depth below it, that
\* __parse_comment resolved
TTResolvedBelow(c) ==
    { s \in tt_logged : Len(s) = Len(c) + 2 /\ SubSeq(s, 1, Len(c)) = c }

TTServedBelow(c) ==
    { e.src : e \in { d \in tt_served : /\ d.obj
                                        /\ Len(d.src) = Len(c) + 2
                                        /\ SubSeq(d.src, 1, Len(c)) = c } }
TTAskedPages(c) ==
    { a[Len(a)] : a \in { b \in tt_asked : Len(b) = Len(c) + 1 /\ SubSeq(b, 1, Len(c)) = c } }

\* page then position of a reply: the last two numbers of its src
TTPagePos(r) == << r.src[Len(r.src) - 1], r.src[Len(r.src)] >>
TTInPageOrder(replies) ==
    \A i \in 1..(Len(replies) - 1) :
        LET a == TTPagePos(replies[i])
            b == TTPagePos(replies[i + 1])
        IN  a[1] < b[1] \/ (a[1] = b[1] /\ a[2] < b[2])

C25_CaptionFromPageOne ==
    tt_pagelog # << >> =>
        /\ tt_data.caption = tt_pagelog[1].caption
        /\ tt_data.video_url = tt_pagelog[1].video_url
        /\ IsPrefix(tt_pagelog[1].comments, tt_data.comments)

\* page 2, with a caption of its own, gave its comment to the aggregate, which
\* was returned with the caption of page 1
C25_Witness ==
    /\ tt_pc = "done"
    /\ Len(tt_pagelog) = 3
    /\ tt_pagelog[2].caption = "caption2"
    /\ Len(tt_data.comments) = 2
    /\ tt_data.comments[2].src = << 2, 1 >>
    /\ tt_data.caption = "caption1"
    /\ tt_data.video_url = "video_url1"

\* C26: every record scrape_comments returns, of either scraper, carries as
\* post_id the identifier scrape_comments was called with, reply records
\* too; on TikTok created_at is the create_time the platform served for that
\* comment, unchanged.
C26_PostIdAndCreateTime ==
    /\ \A i \in DOMAIN ig_all : ig_all[i].post_id = Shortcode
    /\ ig_pc = "done" => \A i \in DOMAIN ig_result : ig_result[i].post_id = Shortcode
    /\ tt_pc = "done" =>
          \A i \in DOMAIN tt_result :
              /\ tt_result[i].post_id = AwemeId
              /\ \E e \in tt_served :
                    e.src = tt_result[i].src /\ tt_result[i].created_at = e.create_time

\* two TikTok comments returned, one with its create_time and one whose
\* create_time the platform served as null
C26_Witness ==
    /\ tt_pc = "done"
    /\ Len(tt_result) = 2
    /\ tt_result[1].created_at = "ts"
    /\ tt_result[2].created_at = NULL
    /\ tt_result[2].post_id = AwemeId

\* C27: when the fetch of page 1 of get_all_comments fails (get_comments
\* returned from its except clause), the walk is over: no further page of the
\* comment list is requested and the aggregate returned has no comments.
C27_PageOneFailureEnds ==
    (tt_pagelog # << >> /\ tt_pagelog[1] = TTEmptyComments) =>
        /\ tt_pc = "done"
        /\ Len(tt_pagelog) = 1
        /\ tt_data.comments = << >>

\* C29: whatever calls of emit were made, from whatever threads, once none
\* is inside the lock the list of a session holds at most 100 messages, and
\* they are the messages captured last, in the order they were captured.
C29_BufferBounded ==
    /\ \A sid \in DOMAIN scraping_logs : Len(scraping_logs[sid]) <= LogCap + 1
    /\ l_lock = 0 =>
          \A sid \in Sessions :
              /\ Len(EntryOf(scraping_logs, sid)) <= LogCap
              /\ EntryOf(scraping_logs, sid) = LastN(l_hist[sid], LogCap)

\* the list was at the cap, two more messages were captured, the two oldest
\* are gone
C29_Witness ==
    /\ l_lock = 0
    /\ Len(l_hist["s1"]) = LogCap + 2
    /\ Len(scraping_logs["s1"]) = LogCap
    /\ scraping_logs["s1"][1] = Message("s1", 3)
    /\ scraping_logs["s1"][LogCap].n > LogCap

C24_LiveProgress ==
    /\ tt_pc = "done" => Srcs(tt_result) \subseteq tt_logged
    /\ ig_pc = "done" => Srcs(ig_result) \subseteq IGCommentEvents

====
